---- MODULE Spec2Model ----
(***************************************************************************)
(* Privexi: USB-keyed encrypted vault.                                     *)
(*                                                                         *)
(*   Part 1  Key Envelope      usb_key_manager.py (create / load the blob) *)
(*   Part 2  Storage Engine    encryption.py, vault_manager.py             *)
(*   Part 3  Device Monitor    usb_monitor.py                              *)
(*   Part 4  Session Controller ui/main_window.py                          *)
(*                                                                         *)
(* Specifications:                                                         *)
(*   SpecEnvelope  create_usb_key followed by load_usb_key calls           *)
(*   Spec          the controller, the monitor thread, the devices, time   *)
(*   FairSpec      Spec with the fairness of the Qt event loop and clock   *)
(*                                                                         *)
(* Bytes are tagged tuples, so that any two bytes can be compared:         *)
(*   <<"b", n>>            the literal byte n                              *)
(*   <<"r", seed, i>>      byte i of the random draw `seed`                *)
(*   <<"u", ch>>           the UTF-8 encoding of the character ch          *)
(*   <<"c", key, nonce, i, x>>   AES-GCM body byte i, plaintext byte x     *)
(*   <<"t", key, nonce, aad, data, j>>  byte j of the AES-GCM tag          *)
(* Strings are sequences of one-character strings.                         *)
(***************************************************************************)
EXTENDS Integers, Sequences, FiniteSets, TLC

\* Python's None, where a path or an object is expected.
None == "None"
\* Python's None, where bytes are expected (comparable with any byte string).
NoBytes == << <<"None">> >>

Min(a, b) == IF a < b THEN a ELSE b
Max(a, b) == IF a > b THEN a ELSE b

(***************************************************************************)
(* Python helpers                                                          *)
(***************************************************************************)

\* data[a:b] on bytes / str: 0-based, half-open, clamped to the length.
Slice(s, a, b) ==
    LET lo == Min(a, Len(s))
        hi == Min(b, Len(s))
    IN  IF hi <= lo THEN <<>> ELSE SubSeq(s, lo + 1, hi)

\* data[a:]
SliceFrom(s, a) == Slice(s, a, Len(s))

\* payload.startswith(VERSION) taken as true for every payload.
StartsWithAnything(s, prefix) == TRUE

\* bytes.startswith(prefix)
StartsWith(s, prefix) ==
    /\ Len(s) >= Len(prefix)
    /\ SubSeq(s, 1, Len(prefix)) = prefix

B(n) == <<"b", n>>

\* n.to_bytes(2, "big")
ToBytes2(n) == << B(n \div 256), B(n % 256) >>

\* int.from_bytes(bs, "big"); the empty slice gives 0.
RECURSIVE FromBytes(_)
FromBytes(bs) ==
    IF bs = <<>> THEN 0
    ELSE 256 * FromBytes(SubSeq(bs, 1, Len(bs) - 1)) + bs[Len(bs)][2]

Whitespace == {" ", "\t", "\n"}

\* str.strip(): drops leading and trailing whitespace.
RECURSIVE LStrip(_)
LStrip(s) ==
    IF s # <<>> /\ s[1] \in Whitespace THEN LStrip(Tail(s)) ELSE s

RECURSIVE RStrip(_)
RStrip(s) ==
    IF s # <<>> /\ s[Len(s)] \in Whitespace
    THEN RStrip(SubSeq(s, 1, Len(s) - 1)) ELSE s

Strip(s) == RStrip(LStrip(s))

\* str.encode(): UTF-8, one tagged byte per character.
Encode(s) == [i \in 1..Len(s) |-> <<"u", s[i]>>]

\* secrets.token_bytes(n): n bytes of the random draw `seed`.
token_bytes(n, seed) == [i \in 1..n |-> <<"r", seed, i>>]

(***************************************************************************)
(* Part 1.  Key Envelope (usb_key_manager.py)                              *)
(***************************************************************************)

VERSION == << B(3) >>
VERSION_SIZE == 1
SALT_SIZE == 32
AES_KEY_SIZE == 32
NONCE_SIZE == 12
\* AESGCM appends a 16-byte tag to the ciphertext.
GCM_TAG_SIZE == 16

\* PBKDF2-HMAC-SHA256(secret.encode(), salt): taken to be collision free.
derive_key_ignores_secret(secret, salt) == <<"dk", <<>>, salt>>

derive_key(secret, salt) == <<"dk", Encode(secret), salt>>

AesGcmTag(key, nonce, data, aad) ==
    [j \in 1..GCM_TAG_SIZE |-> <<"t", key, nonce, aad, data, j>>]

\* AESGCM(key).encrypt(nonce, data, aad): counter-mode body, then the tag.
AesGcmEncrypt(key, nonce, data, aad) ==
    [i \in 1..Len(data) |-> <<"c", key, nonce, i, data[i]>>]
        \o AesGcmTag(key, nonce, data, aad)

\* One body byte decrypted under (key, nonce) at position i.  A byte that was
\* not produced under this key stream decrypts to a garbage byte.
AesGcmDecryptByte(key, nonce, i, c) ==
    IF c[1] = "c" /\ c[2] = key /\ c[3] = nonce /\ c[4] = i
    THEN c[5] ELSE <<"g", i>>

\* AESGCM(key).decrypt(nonce, ct, aad): raises (here: NoBytes) when the nonce has
\* a bad length, the input is shorter than a tag, or the tag does not verify.
AesGcmDecrypt(key, nonce, ct, aad) ==
    IF Len(nonce) < 8 \/ Len(nonce) > 128 \/ Len(ct) < GCM_TAG_SIZE THEN NoBytes
    ELSE LET n    == Len(ct) - GCM_TAG_SIZE
             data == [i \in 1..n |-> AesGcmDecryptByte(key, nonce, i, ct[i])]
             tag  == SubSeq(ct, n + 1, Len(ct))
         IN  IF tag = AesGcmTag(key, nonce, data, aad) THEN data ELSE NoBytes

\* secrets.token_urlsafe(12): 16 base64url characters of the random draw.
UrlsafeAlphabet == << "a", "Q", "7", "-", "_", "z" >>
token_urlsafe(seed) ==
    [i \in 1..16 |-> UrlsafeAlphabet[((seed * i) % Len(UrlsafeAlphabet)) + 1]]

\* str.upper()
UpperChar(ch) ==
    CASE ch = "a" -> "A"
      [] ch = "z" -> "Z"
      [] OTHER    -> ch
Upper(s) == [i \in 1..Len(s) |-> UpperChar(s[i])]

\* The random draws of one create_usb_key call (the two salts may coincide).
Draws == [salt_pw : {1, 2}, salt_recovery : {2}, nonce : {4},
          master_key : {5, 6}, recovery : {1, 5}]

\* create_usb_key, lines 36-61: what it generates and the blob it builds.
CreateKeyMaterial(password, rnd) ==
    LET salt_pw       == token_bytes(SALT_SIZE, rnd.salt_pw)
        salt_recovery == token_bytes(SALT_SIZE, rnd.salt_recovery)
        nonce         == token_bytes(NONCE_SIZE, rnd.nonce)
        master_key    == token_bytes(AES_KEY_SIZE, rnd.master_key)
        recovery_code == Upper(Slice(token_urlsafe(rnd.recovery), 0, 16))
        key_pw        == derive_key(password, salt_pw)
        key_recovery  == derive_key(recovery_code, salt_recovery)
        payload       == VERSION \o master_key
        ct_pw         == AesGcmEncrypt(key_pw, nonce, payload, salt_pw)
        ct_recovery   == AesGcmEncrypt(key_recovery, nonce, payload, salt_recovery)
    IN  [ master_key    |-> master_key,
          recovery_code |-> recovery_code,
          blob          |-> VERSION \o salt_pw \o salt_recovery \o nonce
                              \o ToBytes2(Len(ct_pw)) \o ct_pw \o ct_recovery ]

\* load_usb_key line 108: the salt of the path taken.
ChooseSaltAlwaysPw(is_recovery, salt_pw, salt_recovery) == salt_pw

ChooseSalt(is_recovery, salt_pw, salt_recovery) ==
    IF is_recovery THEN salt_recovery ELSE salt_pw

\* load_usb_key, lines 83-125, on the bytes read from the key file; `data` is
\* NoBytes when the key file does not exist.  Every exception gives None.
load_usb_key(data, secret, is_recovery) ==
    IF data = NoBytes THEN NoBytes
    ELSE IF Slice(data, 0, 1) # VERSION THEN NoBytes
    ELSE LET off1          == 1
             salt_pw       == Slice(data, off1, off1 + SALT_SIZE)
             off2          == off1 + SALT_SIZE
             salt_recovery == Slice(data, off2, off2 + SALT_SIZE)
             off3          == off2 + SALT_SIZE
             nonce         == Slice(data, off3, off3 + NONCE_SIZE)
             off4          == off3 + NONCE_SIZE
             ct_len        == FromBytes(Slice(data, off4, off4 + 2))
             off5          == off4 + 2
             ct_pw         == Slice(data, off5, off5 + ct_len)
             ct_recovery   == SliceFrom(data, off5 + ct_len)
             salt          == ChooseSalt(is_recovery, salt_pw, salt_recovery)
             ciphertext    == IF is_recovery THEN ct_recovery ELSE ct_pw
             key           == derive_key(secret, salt)
             payload       == AesGcmDecrypt(key, nonce, ciphertext, salt)
         IN  IF payload = NoBytes THEN NoBytes
             ELSE IF ~StartsWith(payload, VERSION) THEN NoBytes
             ELSE Slice(payload, 1, 1 + AES_KEY_SIZE)

(***************************************************************************)
(* Part 2.  Storage Engine (encryption.py, vault_manager.py)               *)
(*                                                                         *)
(* A VaultManager object is [fernet, index]: the VaultCrypto's Fernet key  *)
(* (NoBytes once wiped) and the decrypted index, a sequence of entries in  *)
(* dict insertion order.  The disk is [index_file, vault_files, src_files, *)
(* dest_files, clock].                                                     *)
(***************************************************************************)

\* An encryption that loses the last byte.
FernetEncryptShort(key, data) ==
    << <<"fernet", key, SubSeq(data, 1, Len(data) - 1)>> >>

\* Fernet(base64(master_key)).encrypt(data): a token under that key.  The
\* token's random IV and timestamp are left out.
FernetEncrypt(key, data) == << <<"fernet", key, data>> >>

\* VaultCrypto.decrypt_file: None for a token of another key, for a file that
\* is no token, and for a wiped VaultCrypto (the AttributeError is caught).
decrypt_file(fernet, ciphertext) ==
    IF /\ fernet # NoBytes
       /\ Len(ciphertext) = 1
       /\ ciphertext[1][1] = "fernet"
       /\ ciphertext[1][2] = fernet
    THEN ciphertext[1][3] ELSE NoBytes

\* A hash that does not depend on the data.
constant_hash(data) == <<"sha256", << >> >>

\* get_file_integrity_hash: SHA-256, taken to be collision free.
get_file_integrity_hash(data) == <<"sha256", data>>

\* A serializer that loses the entries.
JsonDumpsEmpty(index) == << <<"json", << >> >> >>

\* json.dumps(index).encode() and json.loads(plaintext.decode()).
JsonDumps(index) == << <<"json", index>> >>
IsJson(data) == Len(data) = 1 /\ data[1][1] = "json"
JsonLoads(data) == data[1][2]

ClosedEngine == [fernet |-> NoBytes, index |-> <<>>]

\* VaultManager._load_index, lines 52-66.
load_index(fernet, disk) ==
    IF disk.index_file = NoBytes THEN <<>>
    ELSE LET plaintext == decrypt_file(fernet, disk.index_file)
         IN  IF plaintext = NoBytes THEN <<>>
             ELSE IF ~IsJson(plaintext) THEN <<>>
             ELSE JsonLoads(plaintext)

\* VaultCrypto(master_key) and VaultManager(crypto), lines 42-45.
NewVaultManager(master_key, disk) ==
    [fernet |-> master_key, index |-> load_index(master_key, disk)]

\* VaultManager._save_index, lines 68-72.
save_index(vm, disk) ==
    [disk EXCEPT !.index_file = FernetEncrypt(vm.fernet, JsonDumps(vm.index))]

\* dict operations on the index.
IndexHas(index, vault_id) == \E i \in 1..Len(index) : index[i].vault_id = vault_id
IndexGet(index, vault_id) ==
    index[CHOOSE i \in 1..Len(index) : index[i].vault_id = vault_id]
IndexSet(index, entry) ==
    IF IndexHas(index, entry.vault_id)
    THEN [i \in 1..Len(index) |->
            IF index[i].vault_id = entry.vault_id THEN entry ELSE index[i]]
    ELSE Append(index, entry)
\* del that removes nothing.
IndexDelNothing(index, vault_id) == index

IndexDel(index, vault_id) == SelectSeq(index, LAMBDA e : e.vault_id # vault_id)

\* Removing a key from a function (a file from a directory).
Without(f, k) == [x \in DOMAIN f \ {k} |-> f[x]]
With(f, k, v) == [x \in DOMAIN f \cup {k} |-> IF x = k THEN v ELSE f[x]]

\* sha256(f"{name}{time.time()}").hexdigest(), and its first 16 characters.
VaultStem(name, t) == <<name, t>>
VaultId(stem) == stem

\* VaultManager.add_file, lines 86-116, with secure_wipe_original = True and
\* no I/O error other than a missing source, when time.time() returns t.
\* Result: [ok, vm, disk].
add_file_at(vm, disk, name, t) ==
    IF name \notin DOMAIN disk.src_files \/ vm.fernet = NoBytes
    THEN [ok |-> FALSE, vm |-> vm, disk |-> disk]
    ELSE LET plaintext  == disk.src_files[name]
             sha256     == get_file_integrity_hash(plaintext)
             ciphertext == FernetEncrypt(vm.fernet, plaintext)
             vault_stem == VaultStem(name, t)
             entry      == [vault_id      |-> VaultId(vault_stem),
                            original_name |-> name,
                            vault_file    |-> vault_stem,
                            added_at      |-> t,
                            size_bytes    |-> Len(plaintext),
                            sha256        |-> sha256]
             vm1        == [vm EXCEPT !.index = IndexSet(vm.index, entry)]
             disk1      == [disk EXCEPT
                              !.clock = t,
                              !.vault_files = With(disk.vault_files, vault_stem, ciphertext)]
             disk2      == save_index(vm1, disk1)
             \* secure_delete(source_path): overwritten, then unlinked.
             disk3      == [disk2 EXCEPT !.src_files = Without(disk2.src_files, name)]
         IN  [ok |-> TRUE, vm |-> vm1, disk |-> disk3]

\* add_file with a clock that has advanced since the last call.
add_file(vm, disk, name) == add_file_at(vm, disk, name, disk.clock + 1)

\* A file name is [stem, suffix], as Path.stem and Path.suffix split it.
Digits == << "0", "1", "2", "3", "4", "5", "6", "7", "8", "9" >>
Str(k) == IF k < 10 THEN << Digits[k + 1] >> ELSE << Digits[(k \div 10) + 1], Digits[(k % 10) + 1] >>

\* destination / original_name for k = 0, destination / f"{stem}_{k}{suffix}"
\* for k >= 1 (lines 169, 175).
OutPath(name, k) ==
    IF k = 0 THEN name
    ELSE [stem |-> name.stem \o << "_" >> \o Str(k), suffix |-> name.suffix]

\* Lines 169-178 without the loop.
FirstOutPath(dest_files, name, k) == OutPath(name, k)

\* The loop of lines 171-176: the first path that does not exist.
RECURSIVE FreeOutPath(_, _, _)
FreeOutPath(dest_files, name, k) ==
    IF OutPath(name, k) \in DOMAIN dest_files
    THEN FreeOutPath(dest_files, name, k + 1)
    ELSE OutPath(name, k)

\* VaultManager.list_files, lines 118-137: the entries whose vault file
\* exists, then a stable sort by added_at, latest first.
Unsorted(results) == results

RECURSIVE SortedByAddedAt(_)
SortedByAddedAt(results) ==
    IF results = << >> THEN << >>
    ELSE LET rest == SortedByAddedAt(SubSeq(results, 1, Len(results) - 1))
             x    == results[Len(results)]
             \* x goes behind every entry that is not older than x
             n    == Cardinality({ i \in 1..Len(rest) : rest[i].added_at >= x.added_at })
         IN  SubSeq(rest, 1, n) \o << x >> \o SubSeq(rest, n + 1, Len(rest))

ListedEntry(meta) ==
    [vault_id      |-> meta.vault_id,
     original_name |-> meta.original_name,
     added_at      |-> meta.added_at,
     size_bytes    |-> meta.size_bytes,
     sha256        |-> meta.sha256]

list_files(vm, disk) ==
    LET present == SelectSeq(vm.index, LAMBDA meta : meta.vault_file \in DOMAIN disk.vault_files)
    IN  SortedByAddedAt([i \in 1..Len(present) |-> ListedEntry(present[i])])

\* The branch of extract_file a call takes: "unknown" (line 146), "missing"
\* (151), "decrypt" (158), "integrity" (165) or "written" (178).
ExtractBranch(vm, disk, vault_id) ==
    IF ~IndexHas(vm.index, vault_id) THEN "unknown"
    ELSE LET meta == IndexGet(vm.index, vault_id)
         IN  IF meta.vault_file \notin DOMAIN disk.vault_files THEN "missing"
             ELSE LET plaintext == decrypt_file(vm.fernet, disk.vault_files[meta.vault_file])
                  IN  IF plaintext = NoBytes THEN "decrypt"
                      ELSE IF meta.sha256 # << >>
                              /\ get_file_integrity_hash(plaintext) # meta.sha256
                      THEN "integrity"
                      ELSE "written"

\* The integrity check of lines 163-167 left out.
HashMismatchIgnored(expected_hash, actual_hash) == FALSE

HashMismatch(expected_hash, actual_hash) ==
    expected_hash # << >> /\ actual_hash # expected_hash

\* VaultManager.extract_file, lines 145-183.  Result: [ok, disk, ret]; ret is
\* the returned value: << out_path >>, or << >> for None.
extract_file(vm, disk, vault_id) ==
    IF ~IndexHas(vm.index, vault_id) THEN [ok |-> FALSE, disk |-> disk, ret |-> << >>]
    ELSE LET meta == IndexGet(vm.index, vault_id)
         IN  IF meta.vault_file \notin DOMAIN disk.vault_files
             THEN [ok |-> FALSE, disk |-> disk, ret |-> << >>]
             ELSE LET plaintext == decrypt_file(vm.fernet, disk.vault_files[meta.vault_file])
                  IN  IF plaintext = NoBytes THEN [ok |-> FALSE, disk |-> disk, ret |-> << >>]
                      ELSE IF HashMismatch(meta.sha256, get_file_integrity_hash(plaintext))
                      THEN [ok |-> FALSE, disk |-> disk, ret |-> << >>]
                      ELSE LET out_path == FreeOutPath(disk.dest_files, meta.original_name, 0)
                           IN  [ok |-> TRUE,
                                disk |-> [disk EXCEPT !.dest_files =
                                            With(disk.dest_files, out_path, plaintext)],
                                ret |-> << out_path >>]

\* delete_file without the check of lines 187-189.
delete_file_unchecked(vm, disk, vault_id) ==
    LET vm1 == [vm EXCEPT !.index = IndexDel(vm.index, vault_id)]
    IN  [ok |-> TRUE, vm |-> vm1, disk |-> save_index(vm1, disk)]

\* VaultManager.delete_file, lines 185-197.  Result: [ok, vm, disk].
delete_file(vm, disk, vault_id) ==
    IF ~IndexHas(vm.index, vault_id) THEN [ok |-> FALSE, vm |-> vm, disk |-> disk]
    ELSE LET meta  == IndexGet(vm.index, vault_id)
             disk1 == [disk EXCEPT !.vault_files =
                          IF meta.vault_file \in DOMAIN disk.vault_files
                          THEN Without(disk.vault_files, meta.vault_file)
                          ELSE disk.vault_files]
             vm1   == [vm EXCEPT !.index = IndexDel(vm.index, vault_id)]
         IN  [ok |-> TRUE, vm |-> vm1, disk |-> save_index(vm1, disk1)]

\* VaultManager.lock, lines 199-202: VaultCrypto.wipe() and an empty index.
lock_keeps_key(vm) == [vm EXCEPT !.index = <<>>]

lock(vm) == [fernet |-> NoBytes, index |-> <<>>]

(***************************************************************************)
(* Secrets of the model: what is enrolled and what is typed at unlock.     *)
(***************************************************************************)

PwPlain  == << "p", "a", "s", "s", "w", "0", "r", "d" >>
\* Eight characters, the last one a space: SetupDialog._on_init accepts it.
PwPadded == << "p", "a", "s", "s", "w", "0", "r", " " >>
PwOther  == << "l", "e", "t", "m", "e", "1", "n", "!" >>

Passwords == { PwPlain, PwPadded }

RecoveryCodes == { Upper(token_urlsafe(rnd.recovery)) : rnd \in Draws }

\* What a user may type: the passwords, the recovery codes, the recovery code
\* in lower case as token_urlsafe drew it, a wrong secret, the empty string.
Secrets ==
    Passwords \cup RecoveryCodes
        \cup { token_urlsafe(rnd.recovery) : rnd \in Draws }
        \cup { PwOther, <<>> }

VARIABLES
    env_pc,       \* "start", "created" (create returned the code), "failed"
    env_password, \* the password given to create_usb_key
    env_made,     \* what create_usb_key generated: master_key, recovery_code
    env_file,     \* the bytes of <usb>/.vault.key, NoBytes when absent
    env_open,     \* the last load_usb_key call: secret, is_recovery, result
    sto_call,     \* the last VaultManager call: [op, arg, ok, out]
    sto_added,    \* observer: per vault_id, the name and bytes add_file read
    ul_pc,        \* _on_unlock_requested on the main thread: "idle", "checked", "loaded"
    ul_call,      \* its arguments and locals: [secret, is_recovery, master_key]
    h_runs,       \* observer: runs of _on_usb_connected / _on_usb_disconnected
                  \* since a device was last inserted or removed
    op_pc,        \* the VaultManager call in progress on the main thread: "idle" or its next step
    op_loc,       \* its arguments and locals
    lk_pc         \* VaultManager.lock on the monitor thread: "idle", "wiped"

envVars == << env_pc, env_password, env_made, env_file, env_open >>
\* The variables only the Storage Engine and the stepwise unlock use.
stepVars == << h_runs, op_pc, op_loc, lk_pc >>
auxVars == << sto_call, sto_added, ul_pc, ul_call, stepVars >>

NoCall == [secret |-> <<>>, is_recovery |-> FALSE, result |-> NoBytes, called |-> FALSE]

EnvInit ==
    /\ env_pc = "start"
    /\ env_password = <<>>
    /\ env_made = [master_key |-> NoBytes, recovery_code |-> <<>>]
    /\ env_file = NoBytes
    /\ env_open = NoCall

NoStoCall == [op |-> "none", arg |-> <<>>, ok |-> FALSE, out |-> <<>>, why |-> "none"]
NoUnlock == [secret |-> <<>>, is_recovery |-> FALSE, master_key |-> NoBytes]

NoName == [stem |-> << >>, suffix |-> ""]
\* No VaultManager call in progress.
NoOp == [op |-> "none", name |-> NoName, vault_id |-> << >>, plaintext |-> << >>,
         ciphertext |-> << >>, vault_stem |-> << >>, dump |-> << >>, token |-> << >>,
         added_at |-> 0, erase |-> "none",
         before |-> [index |-> << >>, index_file |-> NoBytes, listing |-> << >>]]

AuxInit ==
    /\ sto_call = NoStoCall
    /\ sto_added = << >>
    /\ ul_pc = "idle"
    /\ ul_call = NoUnlock
    /\ h_runs = 0
    /\ op_pc = "idle"
    /\ op_loc = NoOp
    /\ lk_pc = "idle"

(***************************************************************************)
(* Part 3.  Devices and the Device Monitor (usb_monitor.py)                *)
(***************************************************************************)

\* The removable mount points, in the order _get_removable_drives lists them.
Devices == << "/media/usb1", "/media/usb2" >>
DeviceSet == { Devices[i] : i \in 1..Len(Devices) }

\* An enrolled key file is named by the create_usb_key call that wrote it.
Rnd1 == [salt_pw |-> 1, salt_recovery |-> 2, nonce |-> 4, master_key |-> 5, recovery |-> 1]
Rnd2 == [salt_pw |-> 2, salt_recovery |-> 2, nonce |-> 4, master_key |-> 6, recovery |-> 5]
\* `damage` says what happened to the file since ("none": it is as written).
Enrolled(password, rnd) ==
    [present |-> TRUE, password |-> password, rnd |-> rnd, damage |-> "none"]
\* A device with no .vault.key.
NoKeyFile == [present |-> FALSE, password |-> <<>>, rnd |-> Rnd1, damage |-> "none"]

\* The key files the devices of this model carry, and what the create_usb_key
\* call that wrote each one produced (computed once).
EnrolledFiles == { Enrolled(PwPlain, Rnd1), Enrolled(PwPadded, Rnd2) }
KeyMaterial == [f \in EnrolledFiles |-> CreateKeyMaterial(f.password, f.rnd)]

DamageKinds == { "bad_version", "flip_salts", "flip_ct", "flip_tags", "inner_version",
                 "cut_0", "cut_1", "cut_40", "cut_70", "cut_100", "cut_150" }
CutOf(kind) ==
    CASE kind = "cut_0" -> 0 [] kind = "cut_1" -> 1 [] kind = "cut_40" -> 40
      [] kind = "cut_70" -> 70 [] kind = "cut_100" -> 100 [] kind = "cut_150" -> 150
      [] OTHER -> -1

\* The byte at 0-based offset i replaced by another value.
FlipAt(data, i) == [j \in 1..Len(data) |-> IF j = i + 1 THEN <<"x", data[j]>> ELSE data[j]]

\* The blob of create_usb_key (lines 36-61) with another payload version.
BlobWithInnerVersion(password, rnd, inner) ==
    LET salt_pw       == token_bytes(SALT_SIZE, rnd.salt_pw)
        salt_recovery == token_bytes(SALT_SIZE, rnd.salt_recovery)
        nonce         == token_bytes(NONCE_SIZE, rnd.nonce)
        m             == CreateKeyMaterial(password, rnd)
        payload       == inner \o m.master_key
        ct_pw         == AesGcmEncrypt(derive_key(password, salt_pw), nonce, payload, salt_pw)
        ct_recovery   == AesGcmEncrypt(derive_key(m.recovery_code, salt_recovery), nonce,
                                       payload, salt_recovery)
    IN  VERSION \o salt_pw \o salt_recovery \o nonce
            \o ToBytes2(Len(ct_pw)) \o ct_pw \o ct_recovery

Damage(f, kind) == [f EXCEPT !.damage = kind]
Undamaged(f) == [f EXCEPT !.damage = "none"]

DamagedFiles == { Damage(f, k) : f \in { Enrolled(PwPlain, Rnd1) }, k \in DamageKinds }
DamagedBlob ==
    [f \in DamagedFiles |->
        LET blob == KeyMaterial[Undamaged(f)].blob
        IN  CASE CutOf(f.damage) >= 0       -> Slice(blob, 0, CutOf(f.damage))
              [] f.damage = "bad_version"   -> << B(2) >> \o SliceFrom(blob, 1)
              [] f.damage = "flip_salts"    -> FlipAt(FlipAt(blob, 5), 40)
              [] f.damage = "flip_ct"       -> FlipAt(FlipAt(blob, 85), 135)
              [] f.damage = "flip_tags"     -> FlipAt(FlipAt(blob, 120), 170)
              [] f.damage = "inner_version" -> BlobWithInnerVersion(f.password, f.rnd, << B(2) >>)]

\* key_file.read_bytes() of <path>/.vault.key; NoBytes when it does not exist.
KeyFileBytes(path, mnt, files) ==
    IF path \in mnt /\ files[path].present
    THEN IF files[path].damage = "none" THEN KeyMaterial[files[path]].blob
         ELSE DamagedBlob[files[path]]
    ELSE NoBytes

\* find_usb_with_key, lines 27-39: the first mounted drive holding a key file.
find_usb_with_key(mnt, files) ==
    LET hits == { i \in 1..Len(Devices) : Devices[i] \in mnt /\ files[Devices[i]].present }
    IN  IF hits = {} THEN None
        ELSE Devices[CHOOSE i \in hits : \A j \in hits : i <= j]

(***************************************************************************)
(* Part 4.  Session Controller (ui/main_window.py)                         *)
(***************************************************************************)

MAX_FAILED_ATTEMPTS == 5
AUTO_LOCK_SECONDS == 300
LOCKOUT_SECONDS == 30
PAGE_LOGIN == 0
PAGE_VAULT == 1

\* Seconds of wall-clock time that one Tick step lets pass.
TickSeconds == 15
\* Files the destination directory of extract may hold.
MaxDestFiles == 1

\* A stopped QTimer.
Inactive == -1

VARIABLES
    usb_path,        \* MainWindow._usb_path: None or a device path
    vault_manager,   \* MainWindow._vault_manager: None or "vm" (refers to engine)
    engine,          \* the VaultManager object last constructed: [fernet, index]
    failed_attempts, \* MainWindow._failed_attempts
    locked_out,      \* MainWindow._locked_out
    page,            \* self._stack.currentIndex()
    auto_lock_timer, \* seconds left of _auto_lock_timer, Inactive when stopped
    lockout_timers,  \* seconds left of each pending QTimer.singleShot(_end_lockout)
    login_error,     \* what LoginScreen.show_error last showed: [kind, remaining]
    idle,            \* observer: seconds Unlocked since the unlock or the last file request
    lock_elapsed,    \* observer: seconds the latest lockout has lasted
    last_event,      \* observer: the handler that ran last and its outcome, or "tick"
    current_usb,     \* USBMonitor._current_usb
    mon_pc,          \* the monitor thread: "poll", or the callback it is about to run
    mounted,         \* the removable drives that are mounted
    key_file,        \* per device: the key file on it (NoKeyFile: none)
    disk             \* the vault directory, the source and destination files

ctlVars == << usb_path, vault_manager, engine, failed_attempts, locked_out, page,
              auto_lock_timer, lockout_timers, login_error, idle, lock_elapsed,
              last_event >>
monVars == << current_usb, mon_pc >>
devVars == << mounted, key_file >>

NoError == [kind |-> "none", remaining |-> 0]

Unlocked == page = PAGE_VAULT
Locked == page = PAGE_LOGIN

NoteTxt == [stem |-> << "n", "o", "t", "e" >>, suffix |-> ".txt"]
SourceNames == { NoteTxt }
SourceContent == << B(1), B(2) >>

\* MainWindow.__init__, lines 38-49 and 82.
CtlInit ==
    /\ usb_path = None
    /\ vault_manager = None
    /\ engine = ClosedEngine
    /\ failed_attempts = 0
    /\ locked_out = FALSE
    /\ page = PAGE_LOGIN
    /\ auto_lock_timer = Inactive
    /\ lockout_timers = <<>>
    /\ login_error = NoError
    /\ idle = 0
    /\ lock_elapsed = 0
    /\ last_event = "init"

\* USBMonitor.__init__, lines 164-173.
MonInit ==
    /\ current_usb = None
    /\ mon_pc = "poll"

DiskInit ==
    disk = [ index_file  |-> NoBytes,
             vault_files |-> << >>,
             src_files   |-> [n \in SourceNames |-> SourceContent],
             dest_files  |-> << >>,
             clock       |-> 0 ]

\* Nothing is mounted yet; the two devices were enrolled in earlier runs of
\* the setup dialog, each with its own password and its own draws.
DevInit ==
    /\ mounted = {}
    /\ key_file = [d \in DeviceSet |->
                     IF d = Devices[1] THEN Enrolled(PwPlain, Rnd1)
                     ELSE Enrolled(PwPadded, Rnd2)]

Init == CtlInit /\ MonInit /\ DevInit /\ DiskInit /\ EnvInit /\ AuxInit

(* ---------------- the environment ---------------- *)

Insert(d) ==
    /\ d \notin mounted
    /\ mounted' = mounted \cup {d}
    /\ UNCHANGED << ctlVars, monVars, key_file, disk, envVars, auxVars >>

Remove(d) ==
    /\ d \in mounted
    /\ mounted' = mounted \ {d}
    /\ UNCHANGED << ctlVars, monVars, key_file, disk, envVars, auxVars >>

\* Wall-clock time passes: running timers count down, the clocks count up.
Tick ==
    /\ auto_lock_timer' = IF auto_lock_timer = Inactive THEN Inactive
                          ELSE Max(0, auto_lock_timer - TickSeconds)
    /\ lockout_timers' = [i \in 1..Len(lockout_timers) |->
                            Max(0, lockout_timers[i] - TickSeconds)]
    /\ idle' = IF page = PAGE_VAULT THEN Min(AUTO_LOCK_SECONDS, idle + TickSeconds)
               ELSE idle
    /\ lock_elapsed' = IF locked_out THEN Min(LOCKOUT_SECONDS, lock_elapsed + TickSeconds)
                       ELSE lock_elapsed
    /\ last_event' = "tick"
    /\ UNCHANGED << usb_path, vault_manager, engine, failed_attempts, locked_out,
                    page, login_error, monVars, devVars, disk, envVars, auxVars >>

(* ---------------- handlers of the controller ---------------- *)

\* _lock_vault, lines 205-213.
lock_vault_skips_engine ==
    /\ auto_lock_timer' = Inactive
    /\ vault_manager' = None
    /\ engine' = engine
    /\ page' = PAGE_LOGIN

lock_vault_leaves_timer ==
    /\ auto_lock_timer' = auto_lock_timer
    /\ IF vault_manager # None
       THEN engine' = lock(engine) /\ vault_manager' = None
       ELSE UNCHANGED << engine, vault_manager >>
    /\ page' = PAGE_LOGIN

lock_vault ==
    /\ auto_lock_timer' = Inactive
    /\ IF vault_manager # None
       THEN engine' = lock(engine) /\ vault_manager' = None
       ELSE UNCHANGED << engine, vault_manager >>
    /\ page' = PAGE_LOGIN

\* _on_usb_connected, lines 121-126.
on_usb_connected(path) ==
    /\ usb_path' = path
    /\ last_event' = "connected"
    /\ UNCHANGED << vault_manager, engine, failed_attempts, locked_out, page,
                    auto_lock_timer, lockout_timers, login_error, idle,
                    lock_elapsed, disk >>

\* _on_usb_disconnected, lines 128-134.
on_usb_disconnected_resets_attempts ==
    /\ usb_path' = None
    /\ failed_attempts' = 0
    /\ IF page = PAGE_VAULT
       THEN lock_vault /\ idle' = 0 /\ last_event' = "disconnect_unlocked"
       ELSE /\ last_event' = "disconnect_locked"
            /\ UNCHANGED << vault_manager, engine, page, auto_lock_timer, idle >>
    /\ UNCHANGED << locked_out, lockout_timers, login_error, lock_elapsed, disk >>

on_usb_disconnected ==
    /\ usb_path' = None
    /\ IF page = PAGE_VAULT
       THEN lock_vault /\ idle' = 0 /\ last_event' = "disconnect_unlocked"
       ELSE /\ last_event' = "disconnect_locked"
            /\ UNCHANGED << vault_manager, engine, page, auto_lock_timer, idle >>
    /\ UNCHANGED << failed_attempts, locked_out, lockout_timers, login_error,
                    lock_elapsed, disk >>

\* A lockout that arms the timer and leaves the flag as it was.
trigger_lockout_without_flag ==
    /\ UNCHANGED locked_out
    /\ login_error' = [kind |-> "locked", remaining |-> 0]
    /\ lockout_timers' = Append(lockout_timers, LOCKOUT_SECONDS)
    /\ lock_elapsed' = 0

\* _trigger_lockout, lines 177-181.
trigger_lockout ==
    /\ locked_out' = TRUE
    /\ login_error' = [kind |-> "locked", remaining |-> 0]
    /\ lockout_timers' = Append(lockout_timers, LOCKOUT_SECONDS)
    /\ lock_elapsed' = 0

\* _switch_to_vault, lines 191-195.
switch_to_vault_without_timer ==
    /\ page' = PAGE_VAULT
    /\ auto_lock_timer' = auto_lock_timer

switch_to_vault ==
    /\ page' = PAGE_VAULT
    /\ auto_lock_timer' = AUTO_LOCK_SECONDS

\* _reset_auto_lock_timer, lines 201-203.
reset_auto_lock_timer_noop == auto_lock_timer' = auto_lock_timer

reset_auto_lock_timer ==
    IF page = PAGE_VAULT
    THEN auto_lock_timer' = AUTO_LOCK_SECONDS
    ELSE auto_lock_timer' = auto_lock_timer

\* Line 153: the count shown after a failed attempt.
RemainingBeforeIncrement(failed) == MAX_FAILED_ATTEMPTS - (failed - 1)

Remaining(failed) == MAX_FAILED_ATTEMPTS - failed

\* Line 140: the lockout check that opens the handler.
LockoutNotChecked(flag) == FALSE

InLockout(flag) == flag

\* A controller that goes on to load_usb_key with an empty presence cell.
DeviceNeverAbsent(path) == FALSE

\* _on_unlock_requested, lines 143-145: if not self._usb_path.
DeviceAbsent(path) == path = None

\* Line 149: the secret handed to load_usb_key.
SecretGiven(secret) == Strip(secret)

\* _on_unlock_requested, lines 151-175: what follows load_usb_key.
AfterLoad(master_key) ==
    IF master_key = NoBytes \/ master_key = <<>>
    THEN /\ failed_attempts' = failed_attempts + 1
         /\ IF failed_attempts + 1 >= MAX_FAILED_ATTEMPTS
            THEN trigger_lockout /\ last_event' = "unlock_lockout_started"
            ELSE /\ login_error' = [kind |-> "wrong",
                                    remaining |-> Remaining(failed_attempts + 1)]
                 /\ last_event' = "unlock_failed"
                 /\ UNCHANGED << locked_out, lockout_timers, lock_elapsed >>
         /\ UNCHANGED << usb_path, vault_manager, engine, page,
                         auto_lock_timer, idle >>
    ELSE /\ failed_attempts' = 0
         /\ locked_out' = FALSE
         /\ login_error' = NoError
         /\ engine' = NewVaultManager(master_key, disk)
         /\ vault_manager' = "vm"
         /\ switch_to_vault
         /\ idle' = 0
         /\ last_event' = "unlock_ok"
         /\ UNCHANGED << usb_path, lockout_timers, lock_elapsed >>

\* _on_unlock_requested, lines 138-175, emitted by the login screen.
OnUnlockRequested(secret, is_recovery) ==
    /\ page = PAGE_LOGIN
    /\ IF InLockout(locked_out)
       THEN /\ login_error' = [kind |-> "lockout", remaining |-> 0]
            /\ last_event' = "unlock_locked_out"
            /\ UNCHANGED << usb_path, vault_manager, engine, failed_attempts,
                            locked_out, page, auto_lock_timer, lockout_timers,
                            idle, lock_elapsed >>
       ELSE IF DeviceAbsent(usb_path)
       THEN /\ login_error' = [kind |-> "no_usb", remaining |-> 0]
            /\ last_event' = "unlock_no_usb"
            /\ UNCHANGED << usb_path, vault_manager, engine, failed_attempts,
                            locked_out, page, auto_lock_timer, lockout_timers,
                            idle, lock_elapsed >>
       ELSE AfterLoad(load_usb_key(KeyFileBytes(usb_path, mounted, key_file),
                                   SecretGiven(secret), is_recovery))
    /\ UNCHANGED << monVars, devVars, disk, envVars, auxVars >>

\* _end_lockout, lines 183-187, run by the single-shot timer of _trigger_lockout.
EndLockout ==
    /\ lockout_timers # <<>>
    /\ Head(lockout_timers) = 0
    /\ lockout_timers' = Tail(lockout_timers)
    /\ locked_out' = FALSE
    /\ failed_attempts' = 0
    /\ login_error' = NoError
    /\ last_event' = "end_lockout"
    /\ UNCHANGED << usb_path, vault_manager, engine, page, auto_lock_timer, idle,
                    lock_elapsed, monVars, devVars, disk, envVars, auxVars >>

\* lock_requested of the vault screen, connected to _lock_vault (line 64).
LockRequested ==
    /\ page = PAGE_VAULT
    /\ lock_vault
    /\ idle' = 0
    /\ last_event' = "lock_requested"
    /\ UNCHANGED << usb_path, failed_attempts, locked_out, lockout_timers,
                    login_error, lock_elapsed, monVars, devVars, disk, envVars, auxVars >>

\* _auto_lock, lines 215-218: the single-shot _auto_lock_timer timed out.
AutoLock ==
    /\ auto_lock_timer = 0
    /\ lock_vault
    /\ idle' = IF page = PAGE_VAULT THEN 0 ELSE idle
    /\ last_event' = "auto_lock"
    /\ UNCHANGED << usb_path, failed_attempts, locked_out, lockout_timers,
                    login_error, lock_elapsed, monVars, devVars, disk, envVars, auxVars >>

\* _on_add_file, lines 222-226.
OnAddFile(name) ==
    /\ page = PAGE_VAULT
    /\ reset_auto_lock_timer
    /\ idle' = 0
    /\ IF vault_manager # None
       THEN LET r == add_file(engine, disk, name)
            IN  /\ engine' = r.vm /\ disk' = r.disk
                /\ last_event' = IF r.ok THEN "add_ok" ELSE "add_failed"
       ELSE /\ last_event' = "add_failed"
            /\ UNCHANGED << engine, disk >>
    /\ UNCHANGED << usb_path, vault_manager, failed_attempts, locked_out, page,
                    lockout_timers, login_error, lock_elapsed,
                    monVars, devVars, envVars, auxVars >>

\* _on_extract_file, lines 228-232.
OnExtractFile(vault_id) ==
    /\ page = PAGE_VAULT
    /\ Cardinality(DOMAIN disk.dest_files) < MaxDestFiles
    /\ reset_auto_lock_timer
    /\ idle' = 0
    /\ IF vault_manager # None
       THEN LET r == extract_file(engine, disk, vault_id)
            IN  /\ disk' = r.disk
                /\ last_event' = IF r.ok THEN "extract_ok" ELSE "extract_failed"
       ELSE /\ last_event' = "extract_failed"
            /\ UNCHANGED disk
    /\ UNCHANGED << usb_path, vault_manager, engine, failed_attempts, locked_out,
                    page, lockout_timers, login_error, lock_elapsed,
                    monVars, devVars, envVars, auxVars >>

\* _on_delete_file, lines 234-238.
OnDeleteFile(vault_id) ==
    /\ page = PAGE_VAULT
    /\ reset_auto_lock_timer
    /\ idle' = 0
    /\ IF vault_manager # None
       THEN LET r == delete_file(engine, disk, vault_id)
            IN  /\ engine' = r.vm /\ disk' = r.disk
                /\ last_event' = IF r.ok THEN "delete_ok" ELSE "delete_failed"
       ELSE /\ last_event' = "delete_failed"
            /\ UNCHANGED << engine, disk >>
    /\ UNCHANGED << usb_path, vault_manager, failed_attempts, locked_out, page,
                    lockout_timers, login_error, lock_elapsed,
                    monVars, devVars, envVars, auxVars >>

\* _poll_usb, lines 109-119: the controller's own 1-second timer.
PollUsb ==
    /\ LET usb == current_usb
           was_connected == usb_path # None
       IN  IF usb # None /\ usb # usb_path
           THEN on_usb_connected(usb)
           ELSE IF usb = None /\ was_connected
           THEN on_usb_disconnected
           ELSE UNCHANGED << ctlVars, disk >>
    /\ UNCHANGED << monVars, devVars, envVars, auxVars >>

(* ---------------- the monitor thread ---------------- *)

\* A connect reported on every poll that finds a device.
AnyDevice(usb, current) == usb # None

\* Line 178: if usb and usb != self._current_usb.
IsNewDevice(usb, current) == usb # None /\ usb # current

\* USBMonitor.run, lines 177-183, up to the callback.
MonitorPoll ==
    /\ mon_pc = "poll"
    /\ LET usb == find_usb_with_key(mounted, key_file)
       IN  IF IsNewDevice(usb, current_usb)
           THEN current_usb' = usb /\ mon_pc' = "connected"
           ELSE IF usb = None /\ current_usb # None
           THEN current_usb' = None /\ mon_pc' = "disconnected"
           ELSE UNCHANGED monVars
    /\ UNCHANGED << ctlVars, devVars, disk, envVars, auxVars >>

\* Line 180: self._on_connected(usb), the controller's _on_usb_connected.
MonitorConnected ==
    /\ mon_pc = "connected"
    /\ on_usb_connected(current_usb)
    /\ mon_pc' = "poll"
    /\ UNCHANGED << current_usb, devVars, envVars, auxVars >>

\* Line 183: self._on_disconnected(), the controller's _on_usb_disconnected.
MonitorDisconnected ==
    /\ mon_pc = "disconnected"
    /\ on_usb_disconnected
    /\ mon_pc' = "poll"
    /\ UNCHANGED << current_usb, devVars, envVars, auxVars >>

\* The ids a user can select in the vault screen, and one that is not there.
VaultIds == { VaultId(VaultStem(n, t)) : n \in SourceNames, t \in 1..2 }

\* What the user types at the login screen.
TypedSecrets ==
    { PwPlain, PwPadded, PwOther, <<>>,
      Upper(token_urlsafe(Rnd1.recovery)), Upper(token_urlsafe(Rnd2.recovery)) }

Next ==
    \/ \E d \in DeviceSet : Insert(d)
    \/ \E d \in DeviceSet : Remove(d)
    \/ Tick
    \/ MonitorPoll
    \/ MonitorConnected
    \/ MonitorDisconnected
    \/ PollUsb
    \/ \E s \in TypedSecrets, r \in BOOLEAN : OnUnlockRequested(s, r)
    \/ EndLockout
    \/ LockRequested
    \/ AutoLock
    \/ \E n \in SourceNames : OnAddFile(n)
    \/ \E v \in VaultIds : OnExtractFile(v)
    \/ \E v \in VaultIds : OnDeleteFile(v)

(* ---------------- the Key Envelope on its own ---------------- *)

\* create_usb_key returns the recovery code: the whole blob is on the device.
EnvCreate(password, rnd) ==
    /\ env_pc = "start"
    /\ LET m == CreateKeyMaterial(password, rnd)
       IN  /\ env_made' = [master_key |-> m.master_key,
                           recovery_code |-> m.recovery_code]
           /\ env_file' = m.blob
    /\ env_password' = password
    /\ env_pc' = "created"
    /\ UNCHANGED << env_open, ctlVars, monVars, devVars, disk, auxVars >>

\* write_bytes raises after n bytes (lines 64, 73-75): create_usb_key returns
\* None and the key file holds a prefix of the blob.
WritePrefixes == { 0, 1, 70, 120 }

EnvCreateFails(password, rnd, n) ==
    /\ env_pc = "start"
    /\ env_file' = Slice(CreateKeyMaterial(password, rnd).blob, 0, n)
    /\ env_made' = [master_key |-> CreateKeyMaterial(password, rnd).master_key,
                    recovery_code |-> <<>>]
    /\ env_password' = password
    /\ env_pc' = "failed"
    /\ UNCHANGED << env_open, ctlVars, monVars, devVars, disk, auxVars >>

EnvOpen(secret, is_recovery) ==
    /\ env_pc \in {"created", "failed"}
    /\ env_open' = [secret |-> secret, is_recovery |-> is_recovery,
                    result |-> load_usb_key(env_file, secret, is_recovery),
                    called |-> TRUE]
    /\ UNCHANGED << env_pc, env_password, env_made, env_file >>
    /\ UNCHANGED << ctlVars, monVars, devVars, disk, auxVars >>

NextEnvelope ==
    \/ \E p \in Passwords \cup {<<>>}, rnd \in Draws : EnvCreate(p, rnd)
    \/ \E p \in Passwords, rnd \in Draws, n \in WritePrefixes :
          EnvCreateFails(p, rnd, n)
    \/ \E s \in Secrets, r \in BOOLEAN : EnvOpen(s, r)

vars == << ctlVars, monVars, devVars, disk, envVars, auxVars >>

Spec == Init /\ [][Next]_vars

\* The Qt event loop runs every due timer and time does not stop.
FairSpec == Spec /\ WF_vars(Tick) /\ WF_vars(AutoLock) /\ WF_vars(EndLockout)

\* The envelope alone: the controller stays as constructed.
InitEnvelope ==
    /\ EnvInit /\ CtlInit /\ MonInit /\ DiskInit /\ AuxInit
    /\ mounted = {}
    /\ key_file = [d \in DeviceSet |-> NoKeyFile]

SpecEnvelope == InitEnvelope /\ [][NextEnvelope]_vars

\* C3: after create(P) returned R, open(blob, P, false) and open(blob, R, true)
\* both return the 32-byte master key that this create call generated.
C3_RoundTrip ==
    ( /\ env_pc = "created"
      /\ env_open.called
      /\ \/ env_open.secret = env_password /\ ~env_open.is_recovery
         \/ env_open.secret = env_made.recovery_code /\ env_open.is_recovery )
    => /\ env_open.result = env_made.master_key
       /\ Len(env_open.result) = AES_KEY_SIZE
       /\ env_open.result # NoBytes

C3_Witness ==
    /\ env_pc = "created"
    /\ env_open.called
    /\ env_open.is_recovery
    /\ env_open.secret = env_made.recovery_code
    /\ env_open.secret # env_password
    /\ env_open.result = env_made.master_key

\* C4: a secret that is neither the enrolled password nor the recovery code
\* opens nothing, on the password path and on the recovery path alike.
C4_WrongSecretFails ==
    ( /\ env_pc = "created"
      /\ env_open.called
      /\ env_open.secret # env_password
      /\ env_open.secret # env_made.recovery_code )
    => env_open.result = NoBytes

C4_Witness ==
    /\ env_pc = "created"
    /\ env_open.called
    /\ env_open.secret = PwOther
    /\ env_open.is_recovery
    /\ env_open.result = NoBytes

(***************************************************************************)
(* Properties of the Session Controller                                    *)
(***************************************************************************)

\* The device named by the presence cell is mounted and holds a key file.
DevicePresent ==
    /\ usb_path # None
    /\ usb_path \in mounted
    /\ key_file[usb_path].present

\* What create_usb_key generated for the key file of the present device.
PresentKeyMaterial == KeyMaterial[key_file[usb_path]]

\* The secret the user was given at enrollment, for the path it is typed on.
CorrectSecret(secret, is_recovery) ==
    IF is_recovery THEN secret = PresentKeyMaterial.recovery_code
    ELSE secret = key_file[usb_path].password

\* load_usb_key on each key file of the model, for each secret the handler can
\* pass on (computed once).
OpenedWith ==
    [f \in EnrolledFiles, s \in { SecretGiven(t) : t \in TypedSecrets }, r \in BOOLEAN |->
        load_usb_key(KeyMaterial[f].blob, s, r)]

\* Key Envelope open as the handler calls it (line 149).
OpenResult(secret, is_recovery) ==
    IF DevicePresent
    THEN OpenedWith[key_file[usb_path], SecretGiven(secret), is_recovery]
    ELSE load_usb_key(KeyFileBytes(usb_path, mounted, key_file), SecretGiven(secret), is_recovery)
OpenFails(secret, is_recovery) ==
    LET key == OpenResult(secret, is_recovery) IN key = NoBytes \/ key = <<>>

\* A disconnect reaches the controller: the monitor's callback, or _poll_usb
\* seeing the monitor's path gone.
DisconnectReported ==
    \/ MonitorDisconnected
    \/ PollUsb /\ current_usb = None /\ usb_path # None

\* Every branch of OnUnlockRequested records itself in last_event; a step of
\* another handler is told apart by it without opening the key file again.
UnlockHandled ==
    last_event' \in {"unlock_locked_out", "unlock_no_usb", "unlock_failed",
                     "unlock_lockout_started", "unlock_ok"}

FileRequest ==
    \/ \E n \in SourceNames : OnAddFile(n)
    \/ \E v \in VaultIds : OnExtractFile(v)
    \/ \E v \in VaultIds : OnDeleteFile(v)

\* C1: five consecutive failures lock the controller out; _end_lockout runs
\* no sooner than 30 s later and leaves failed_attempts = 0, locked_out false;
\* after that an attempt with the correct secret, device present, unlocks and
\* leaves failed_attempts at 0.
C1_LockoutThenCorrectSecret ==
    [][ /\ failed_attempts' >= MAX_FAILED_ATTEMPTS => locked_out'
        /\ EndLockout => /\ lock_elapsed >= LOCKOUT_SECONDS
                         /\ failed_attempts' = 0
                         /\ ~locked_out'
        /\ \A s \in TypedSecrets, r \in BOOLEAN :
             ( /\ UnlockHandled
               /\ ~locked_out
               /\ lock_elapsed >= LOCKOUT_SECONDS
               /\ DevicePresent
               /\ CorrectSecret(s, r)
               /\ OnUnlockRequested(s, r) )
             => (page' = PAGE_VAULT /\ failed_attempts' = 0)
      ]_vars

\* C2: while locked_out is set, every unlock attempt, whatever the secret, is
\* turned away at the lockout check: the session stays Locked, no engine is
\* opened, and failed_attempts, locked_out and the pending lockout timer are
\* what they were.
C2_LockoutRejectsAll ==
    [][ \A s \in TypedSecrets, r \in BOOLEAN :
          (UnlockHandled /\ locked_out /\ OnUnlockRequested(s, r))
          => /\ page' = PAGE_LOGIN
             /\ vault_manager' = None
             /\ engine' = engine
             /\ failed_attempts' = failed_attempts
             /\ locked_out'
             /\ lockout_timers' = lockout_timers
             /\ login_error'.kind = "lockout"
      ]_vars

C2_Witness ==
    /\ last_event = "unlock_locked_out"
    /\ locked_out
    /\ DevicePresent
    /\ lockout_timers # <<>>
    /\ page = PAGE_LOGIN

\* C5: a disconnect reported while Unlocked locks within the same handler:
\* engine closed, vault manager dropped, auto-lock timer stopped, presence
\* cell cleared, login page shown.
C5_DisconnectLocksNow ==
    [][ (page = PAGE_VAULT /\ DisconnectReported)
        => /\ engine # ClosedEngine
           /\ engine' = ClosedEngine
           /\ vault_manager' = None
           /\ auto_lock_timer' = Inactive
           /\ usb_path' = None
           /\ page' = PAGE_LOGIN
      ]_vars

C5_Witness ==
    /\ last_event = "disconnect_unlocked"
    /\ page = PAGE_LOGIN
    /\ engine = ClosedEngine
    /\ vault_manager = None
    /\ usb_path = None
    /\ auto_lock_timer = Inactive

\* C6: an attempt (presence cell set, no lockout) whose open fails adds one to
\* failed_attempts and stays Locked; below 5 it shows 5 - failed_attempts as
\* the attempts left, at 5 it starts the lockout instead.  (Written as
\* "outcome, or the case did not happen": the implication, cheap side first.)
C6_FailedAttemptCounts ==
    [][ \A s \in TypedSecrets, r \in BOOLEAN :
          \/ /\ failed_attempts' = failed_attempts + 1
             /\ page' = PAGE_LOGIN
             /\ vault_manager' = None
             /\ IF failed_attempts' < MAX_FAILED_ATTEMPTS
                THEN /\ login_error' = [kind |-> "wrong",
                                        remaining |-> MAX_FAILED_ATTEMPTS - failed_attempts']
                     /\ ~locked_out'
                     /\ lockout_timers' = lockout_timers
                ELSE /\ locked_out'
                     /\ login_error'.kind = "locked"
                     /\ lockout_timers' = Append(lockout_timers, LOCKOUT_SECONDS)
          \/ ~( /\ UnlockHandled
                /\ ~locked_out
                /\ usb_path # None
                /\ OpenFails(s, r)
                /\ OnUnlockRequested(s, r) )
      ]_vars

C6_Witness ==
    /\ last_event = "unlock_failed"
    /\ failed_attempts = 4
    /\ login_error = [kind |-> "wrong", remaining |-> 1]
    /\ ~locked_out
    /\ page = PAGE_LOGIN

\* C7: an attempt (presence cell set, no lockout) whose open succeeds resets
\* failed_attempts and locked_out, opens the engine with the cipher of the
\* device's master key, shows the vault page and starts the auto-lock timer
\* at its full interval.  (Written as "outcome, or the case did not
\* happen": the implication, cheap side first.)
C7_SuccessUnlocks ==
    [][ \A s \in TypedSecrets, r \in BOOLEAN :
          \/ /\ failed_attempts' = 0
             /\ ~locked_out'
             /\ vault_manager' # None
             /\ page' = PAGE_VAULT
             /\ auto_lock_timer' = AUTO_LOCK_SECONDS
             /\ usb_path # None
             /\ engine'.fernet = PresentKeyMaterial.master_key
             /\ engine'.index = load_index(engine'.fernet, disk)
          \/ ~( /\ UnlockHandled
                /\ ~locked_out
                /\ usb_path # None
                /\ ~OpenFails(s, r)
                /\ OnUnlockRequested(s, r) )
      ]_vars

C7_Witness ==
    /\ last_event = "unlock_ok"
    /\ page = PAGE_VAULT
    /\ failed_attempts = 0
    /\ DevicePresent
    /\ engine.fernet = PresentKeyMaterial.master_key
    /\ auto_lock_timer = AUTO_LOCK_SECONDS

\* C8: a lock request or the auto-lock timeout while Unlocked leaves the
\* session Locked, the engine closed and the timer stopped; and if from some
\* point on no add, extract or delete is requested, every Unlocked state is
\* followed by a Locked one.
C8_LockAndAutoLock ==
    /\ [][ (page = PAGE_VAULT /\ (LockRequested \/ AutoLock))
           => /\ page' = PAGE_LOGIN
              /\ engine' = ClosedEngine
              /\ vault_manager' = None
              /\ auto_lock_timer' = Inactive
         ]_vars
    /\ (<>[][~FileRequest]_vars) => (Unlocked ~> Locked)

C8_Witness ==
    /\ last_event = "auto_lock"
    /\ page = PAGE_LOGIN
    /\ engine = ClosedEngine
    /\ auto_lock_timer = Inactive
    /\ DevicePresent

\* C9: every add, extract or delete request handled while Unlocked restarts
\* the auto-lock timer at its full interval, whether the operation succeeds
\* or fails; the auto-lock runs only after a full interval without a request.
C9_ActivityRestartsTimer ==
    [][ /\ (page = PAGE_VAULT /\ FileRequest) => auto_lock_timer' = AUTO_LOCK_SECONDS
        /\ (page = PAGE_VAULT /\ AutoLock) => idle >= AUTO_LOCK_SECONDS
      ]_vars

C9_Witness ==
    /\ last_event = "extract_failed"
    /\ page = PAGE_VAULT
    /\ auto_lock_timer = AUTO_LOCK_SECONDS
    /\ lock_elapsed >= LOCKOUT_SECONDS

\* C10: a disconnect reported while Locked clears the presence cell and
\* nothing else: failed_attempts, locked_out, the pending lockout timer and
\* the closed engine stay as they were.
C10_DisconnectWhileLocked ==
    [][ (page = PAGE_LOGIN /\ DisconnectReported)
        => /\ usb_path' = None
           /\ engine = ClosedEngine
           /\ UNCHANGED << failed_attempts, locked_out, lockout_timers, lock_elapsed,
                           engine, vault_manager, page, auto_lock_timer, disk >>
      ]_vars

C10_Witness ==
    /\ last_event = "disconnect_locked"
    /\ locked_out
    /\ failed_attempts = MAX_FAILED_ATTEMPTS
    /\ lockout_timers = << LOCKOUT_SECONDS >>
    /\ usb_path = None
    /\ page = PAGE_LOGIN

(***************************************************************************)
(* The Storage Engine on its own: one VaultManager of an open session, the *)
(* files around it, and whoever else can write to the vault directory and  *)
(* the destination directory.                                              *)
(***************************************************************************)

\* Files the destination directory may hold.
MaxStoDest == 3

StoKey == token_bytes(AES_KEY_SIZE, 5)

\* a.txt and a_1.txt: the second is the name extract gives a second a.txt.
FileA  == [stem |-> << "a" >>, suffix |-> ".txt"]
FileA1 == [stem |-> << "a", "_", "1" >>, suffix |-> ".txt"]
StoNames == { FileA, FileA1 }
\* The sources: a.txt holds two bytes, a_1.txt is empty.  add_file wipes the
\* source it stored, so each is added at most once.
StoContent(name) == IF name = FileA THEN << B(1), B(2) >> ELSE << >>
\* What another program left in the destination directory.
ForeignContent == << B(9) >>

StoIds == { VaultId(VaultStem(n, t)) : n \in StoNames, t \in 1..Cardinality(StoNames) }
StoStems == { VaultStem(n, t) : n \in StoNames, t \in 1..Cardinality(StoNames) }

InitStorage ==
    /\ EnvInit /\ MonInit /\ DevInit /\ AuxInit
    /\ usb_path = None /\ vault_manager = None
    /\ failed_attempts = 0 /\ locked_out = FALSE /\ page = PAGE_LOGIN
    /\ auto_lock_timer = Inactive /\ lockout_timers = <<>> /\ login_error = NoError
    /\ idle = 0 /\ lock_elapsed = 0 /\ last_event = "init"
    /\ disk = [ index_file  |-> NoBytes,
                vault_files |-> << >>,
                src_files   |-> [n \in StoNames |-> StoContent(n)],
                dest_files  |-> << >>,
                clock       |-> 0 ]
    /\ engine = [fernet |-> StoKey, index |-> << >>]

stoRest == << usb_path, vault_manager, failed_attempts, locked_out, page, auto_lock_timer,
              lockout_timers, login_error, idle, lock_elapsed, last_event,
              monVars, devVars, envVars, ul_pc, ul_call, stepVars >>

StoAdd(name) ==
    /\ LET r     == add_file(engine, disk, name)
           stem  == VaultStem(name, disk.clock + 1)
       IN  /\ engine' = r.vm
           /\ disk' = r.disk
           /\ sto_call' = [op |-> "add", arg |-> << name >>, ok |-> r.ok, out |-> << >>,
                           why |-> "none"]
           /\ sto_added' = IF r.ok
                           THEN With(sto_added, VaultId(stem),
                                     [name    |-> name,
                                      content |-> disk.src_files[name],
                                      stem    |-> stem,
                                      stored  |-> r.disk.vault_files[stem]])
                           ELSE sto_added
    /\ UNCHANGED stoRest

StoList ==
    /\ sto_call' = [op |-> "list", arg |-> << >>, ok |-> TRUE,
                    out |-> list_files(engine, disk), why |-> "none"]
    /\ UNCHANGED << engine, disk, sto_added, stoRest >>

StoExtract(vault_id) ==
    /\ Cardinality(DOMAIN disk.dest_files) < MaxStoDest
    /\ LET r   == extract_file(engine, disk, vault_id)
           why == ExtractBranch(engine, disk, vault_id)
       IN  /\ disk' = r.disk
           /\ sto_call' = [op |-> "extract", arg |-> << vault_id >>, ok |-> r.ok,
                           out |-> r.ret, why |-> why]
    /\ UNCHANGED << engine, sto_added, stoRest >>

StoDelete(vault_id) ==
    /\ LET r == delete_file(engine, disk, vault_id)
       IN  /\ engine' = r.vm
           /\ disk' = r.disk
           /\ sto_call' = [op |-> "delete", arg |-> << vault_id >>, ok |-> r.ok,
                           out |-> << >>, why |-> "none"]
    /\ UNCHANGED << sto_added, stoRest >>

\* What a stored vault file can be changed to by someone without the key: a
\* byte flipped, or the bytes of another file of the vault directory (another
\* vault file, the index file) copied over it.
Flipped(bytes) ==
    IF Len(bytes) = 1 /\ bytes[1][1] = "fernet"
    THEN { << <<"flipped", bytes[1][2], bytes[1][3]>> >> }
    ELSE {}

AlteredBytes(d, stem) ==
    ( Flipped(d.vault_files[stem])
        \cup { d.vault_files[x] : x \in DOMAIN d.vault_files }
        \cup (IF d.index_file = NoBytes THEN {} ELSE { d.index_file }) )
    \ { d.vault_files[stem] }

StoAlter(stem) ==
    /\ stem \in DOMAIN disk.vault_files
    /\ \E bytes \in AlteredBytes(disk, stem) :
         disk' = [disk EXCEPT !.vault_files[stem] = bytes]
    /\ sto_call' = NoStoCall
    /\ UNCHANGED << engine, sto_added, stoRest >>

\* A vault file is removed behind the engine's back.
StoUnlink(stem) ==
    /\ stem \in DOMAIN disk.vault_files
    /\ disk' = [disk EXCEPT !.vault_files = Without(disk.vault_files, stem)]
    /\ sto_call' = NoStoCall
    /\ UNCHANGED << engine, sto_added, stoRest >>

\* Another program writes a file into the destination directory.
StoPutDest(path) ==
    /\ Cardinality(DOMAIN disk.dest_files) < MaxStoDest
    /\ path \notin DOMAIN disk.dest_files
    /\ disk' = [disk EXCEPT !.dest_files = With(disk.dest_files, path, ForeignContent)]
    /\ sto_call' = NoStoCall
    /\ UNCHANGED << engine, sto_added, stoRest >>

NextStorage ==
    \/ \E n \in StoNames : StoAdd(n)
    \/ StoList
    \/ \E v \in StoIds : StoExtract(v)
    \/ \E v \in StoIds : StoDelete(v)
    \/ \E x \in StoStems : StoAlter(x)
    \/ \E x \in StoStems : StoUnlink(x)
    \/ \E k \in {0, 2} : StoPutDest(OutPath(FileA, k))

SpecStorage == InitStorage /\ [][NextStorage]_vars

(***************************************************************************)
(* Properties of the Storage Engine                                        *)
(***************************************************************************)

\* The vault file of an added entry holds the bytes add_file wrote.
Intact(d, vault_id) ==
    /\ sto_added[vault_id].stem \in DOMAIN d.vault_files
    /\ d.vault_files[sto_added[vault_id].stem] = sto_added[vault_id].stored

\* The vault file of an added entry is there with other bytes.
Altered(d, vault_id) ==
    /\ sto_added[vault_id].stem \in DOMAIN d.vault_files
    /\ d.vault_files[sto_added[vault_id].stem] # sto_added[vault_id].stored

Listed(listing, vault_id) == \E i \in 1..Len(listing) : listing[i].vault_id = vault_id

\* The files of the destination directory before a step are there after it,
\* with their bytes.
DestKept ==
    \A q \in DOMAIN disk.dest_files :
        q \in DOMAIN disk'.dest_files /\ disk'.dest_files[q] = disk.dest_files[q]

\* C11: after add_file of a source named N holding B succeeds, list_files has
\* an entry with original_name N and size_bytes Len(B); extract_file of that
\* entry (still in the index, its vault file as written) writes one new file
\* holding exactly B; after delete_file of it list_files no longer has it.
C11_AddListExtractDelete ==
    [][ /\ \A n \in StoNames :
             (StoAdd(n) /\ sto_call'.ok)
             => \E i \in 1..Len(list_files(engine', disk')) :
                  LET e == list_files(engine', disk')[i]
                  IN  /\ e.vault_id = VaultId(VaultStem(n, disk'.clock))
                      /\ e.original_name = n
                      /\ e.size_bytes = Len(disk.src_files[n])
                      /\ sto_added'[e.vault_id].content = disk.src_files[n]
        /\ \A v \in StoIds :
             ( /\ StoExtract(v)
               /\ v \in DOMAIN sto_added
               /\ IndexHas(engine.index, v)
               /\ Intact(disk, v) )
             => /\ sto_call'.ok
                /\ Len(sto_call'.out) = 1
                /\ sto_call'.out[1] \notin DOMAIN disk.dest_files
                /\ DOMAIN disk'.dest_files = DOMAIN disk.dest_files \cup { sto_call'.out[1] }
                /\ disk'.dest_files[sto_call'.out[1]] = sto_added[v].content
                /\ DestKept
        /\ \A v \in StoIds :
             (StoDelete(v) /\ sto_call'.ok)
             => ~Listed(list_files(engine', disk'), v)
      ]_vars

C11_Witness ==
    /\ sto_call.op = "extract"
    /\ sto_call.ok
    /\ sto_call.arg[1] \in DOMAIN sto_added
    /\ sto_added[sto_call.arg[1]].content = << B(1), B(2) >>
    /\ disk.dest_files[sto_call.out[1]] = << B(1), B(2) >>
    /\ Listed(list_files(engine, disk), sto_call.arg[1])

Decrypted(vault_id) ==
    IF IndexGet(engine.index, vault_id).vault_file \in DOMAIN disk.vault_files
    THEN decrypt_file(engine.fernet,
                      disk.vault_files[IndexGet(engine.index, vault_id).vault_file])
    ELSE NoBytes

\* C13: when the vault file of an entry decrypts to bytes other than those
\* add_file hashed (so the SHA-256 values differ), extract_file returns None
\* and no file of the destination directory is created or modified.
C13_HashCheckedBeforeWriting ==
    [][ \A v \in StoIds :
          ( /\ StoExtract(v)
            /\ v \in DOMAIN sto_added
            /\ IndexHas(engine.index, v)
            /\ Decrypted(v) # NoBytes
            /\ Decrypted(v) # sto_added[v].content )
          => /\ ~sto_call'.ok
             /\ sto_call'.out = << >>
             /\ disk'.dest_files = disk.dest_files
      ]_vars

C13_Witness ==
    /\ sto_call.op = "extract"
    /\ ~sto_call.ok
    /\ sto_call.why = "integrity"
    /\ sto_call.arg[1] \in DOMAIN sto_added
    /\ Decrypted(sto_call.arg[1]) # NoBytes
    /\ Decrypted(sto_call.arg[1]) # sto_added[sto_call.arg[1]].content
    /\ disk.dest_files # << >>

\* C14: a call of extract_file that fails the integrity check returns
\* something other than what a call that fails for another reason (unknown
\* id, missing vault file, decryption failure) returns: here for two calls
\* in a row.
C14_IntegrityFailureDistinct ==
    [][ ( /\ \E v \in StoIds : StoExtract(v)
          /\ sto_call.op = "extract"
          /\ sto_call.why \in {"unknown", "missing", "decrypt"}
          /\ sto_call'.why = "integrity" )
        => sto_call'.out # sto_call.out
      ]_vars

\* C15: delete_file of a vault_id that is not in the index returns False and
\* leaves the index in memory, the index file and every vault file as they
\* were.
C15_DeleteUnknownChangesNothing ==
    [][ \A v \in StoIds :
          (StoDelete(v) /\ ~IndexHas(engine.index, v))
          => /\ ~sto_call'.ok
             /\ engine' = engine
             /\ disk' = disk
      ]_vars

C15_Witness ==
    /\ sto_call.op = "delete"
    /\ ~sto_call.ok
    /\ ~IndexHas(engine.index, sto_call.arg[1])
    /\ Len(engine.index) > 0
    /\ disk.index_file # NoBytes

\* C16: list_files returns exactly the index entries whose vault file exists,
\* each once, latest added_at first, and changes neither the index in memory
\* nor anything on disk; a second call right after the first returns the same
\* sequence.
C16_ListIsPureAndOrdered ==
    [][ StoList
        => LET out == sto_call'.out
           IN  /\ engine' = engine
               /\ disk' = disk
               /\ \A i \in 1..Len(engine.index) :
                    (engine.index[i].vault_file \in DOMAIN disk.vault_files)
                    <=> Listed(out, engine.index[i].vault_id)
               /\ \A i \in 1..Len(out) :
                    /\ IndexHas(engine.index, out[i].vault_id)
                    /\ out[i] = ListedEntry(IndexGet(engine.index, out[i].vault_id))
               /\ \A i, j \in 1..Len(out) :
                    i < j => /\ out[i].vault_id # out[j].vault_id
                             /\ out[i].added_at >= out[j].added_at
               /\ sto_call.op = "list" => out = sto_call.out
      ]_vars

C16_Witness ==
    /\ sto_call.op = "list"
    /\ Len(sto_call.out) = 2
    /\ sto_call.out[1].added_at > sto_call.out[2].added_at
    /\ Len(engine.index) = 2

\* C17: a successful extract_file writes to a path that did not exist and
\* leaves every existing destination file as it was; the path is
\* destination/original_name when that is free, otherwise
\* destination/<stem>_<k><suffix> for the smallest k >= 1 that is free, and k
\* is at most the number of files in the destination directory.
C17_ExtractNeverOverwrites ==
    [][ \A v \in StoIds :
          (StoExtract(v) /\ sto_call'.ok)
          => LET name == IndexGet(engine.index, v).original_name
                 free == { k \in 0..Cardinality(DOMAIN disk.dest_files) :
                             OutPath(name, k) \notin DOMAIN disk.dest_files }
                 k0   == CHOOSE k \in free : \A j \in free : k <= j
             IN  /\ free # {}
                 /\ sto_call'.out = << OutPath(name, k0) >>
                 /\ OutPath(name, k0) \notin DOMAIN disk.dest_files
                 /\ OutPath(name, k0) \in DOMAIN disk'.dest_files
                 /\ DestKept
      ]_vars

\* a.txt and a_1.txt were in the way: a.txt went to a_2.txt.
C17_Witness ==
    /\ sto_call.op = "extract"
    /\ sto_call.ok
    /\ sto_call.out = << OutPath(FileA, 2) >>
    /\ { FileA, FileA1 } \subseteq DOMAIN disk.dest_files
    /\ disk.dest_files[FileA] = ForeignContent
    /\ disk.dest_files[OutPath(FileA, 2)] = << B(1), B(2) >>

(***************************************************************************)
(* Properties of the Device Monitor                                        *)
(***************************************************************************)

\* What this poll of the monitor finds.
Found == find_usb_with_key(mounted, key_file)

\* C18: the monitor thread gets to call on_connected only from a poll that
\* finds a device whose path differs from the last known one, and
\* on_disconnected only from a poll that finds none while the last known path
\* is set; a poll that finds what the last one found changes nothing and
\* calls nothing, however often it is repeated.
C18_EdgeTriggered ==
    [][ /\ (mon_pc # "connected" /\ mon_pc' = "connected")
           => /\ MonitorPoll
              /\ Found # None /\ Found # current_usb
              /\ current_usb' = Found
        /\ (mon_pc # "disconnected" /\ mon_pc' = "disconnected")
           => /\ MonitorPoll
              /\ Found = None /\ current_usb # None
              /\ current_usb' = None
        /\ (MonitorPoll /\ Found = current_usb)
           => /\ mon_pc' = "poll"
              /\ UNCHANGED << current_usb, ctlVars >>
        /\ MonitorConnected => mon_pc = "connected"
        /\ MonitorDisconnected => mon_pc = "disconnected"
      ]_vars

\* The device was swapped between two polls: a second on_connected is due.
C18_Witness ==
    /\ mon_pc = "connected"
    /\ current_usb = Devices[2]
    /\ usb_path = Devices[1]
    /\ Found = Devices[2]

(***************************************************************************)
(* Unlocking with a key file that is damaged or gone: the controller with  *)
(* device 1 connected, and whatever rewrites the key file on it while the  *)
(* monitor has not polled again.                                           *)
(***************************************************************************)

InitDamaged ==
    /\ EnvInit /\ DiskInit /\ AuxInit
    /\ usb_path = Devices[1] /\ vault_manager = None /\ engine = ClosedEngine
    /\ failed_attempts = 0 /\ locked_out = FALSE /\ page = PAGE_LOGIN
    /\ auto_lock_timer = Inactive /\ lockout_timers = <<>> /\ login_error = NoError
    /\ idle = 0 /\ lock_elapsed = 0 /\ last_event = "connected"
    /\ current_usb = Devices[1] /\ mon_pc = "poll"
    /\ mounted = { Devices[1] }
    /\ key_file = [d \in DeviceSet |->
                     IF d = Devices[1] THEN Enrolled(PwPlain, Rnd1)
                     ELSE Enrolled(PwPadded, Rnd2)]

KeyFileDamaged(kind) ==
    /\ key_file' = [key_file EXCEPT ![Devices[1]] = Damage(Enrolled(PwPlain, Rnd1), kind)]
    /\ UNCHANGED << ctlVars, monVars, mounted, disk, envVars, auxVars >>

KeyFileDeleted ==
    /\ key_file' = [key_file EXCEPT ![Devices[1]] = NoKeyFile]
    /\ UNCHANGED << ctlVars, monVars, mounted, disk, envVars, auxVars >>

KeyFileRestored ==
    /\ key_file' = [key_file EXCEPT ![Devices[1]] = Enrolled(PwPlain, Rnd1)]
    /\ UNCHANGED << ctlVars, monVars, mounted, disk, envVars, auxVars >>

NextDamaged ==
    \/ \E kind \in DamageKinds : KeyFileDamaged(kind)
    \/ KeyFileDeleted
    \/ KeyFileRestored
    \/ \E s \in TypedSecrets, r \in BOOLEAN : OnUnlockRequested(s, r)
    \/ Tick
    \/ EndLockout
    \/ LockRequested
    \/ AutoLock

SpecDamaged == InitDamaged /\ [][NextDamaged]_vars

\* What the controller shows and keeps after the n-th failure in a row.
FailureReaction(n) ==
    /\ failed_attempts' = n
    /\ page' = PAGE_LOGIN
    /\ vault_manager' = None
    /\ engine' = engine
    /\ IF n < MAX_FAILED_ATTEMPTS
       THEN /\ login_error' = [kind |-> "wrong", remaining |-> MAX_FAILED_ATTEMPTS - n]
            /\ ~locked_out'
       ELSE /\ login_error' = [kind |-> "locked", remaining |-> 0]
            /\ locked_out'

UnlockBegin(secret, is_recovery) ==
    /\ ul_pc = "idle"
    /\ page = PAGE_LOGIN
    /\ IF InLockout(locked_out)
       THEN /\ login_error' = [kind |-> "lockout", remaining |-> 0]
            /\ last_event' = "unlock_locked_out"
            /\ UNCHANGED << ul_pc, ul_call >>
       ELSE IF DeviceAbsent(usb_path)
       THEN /\ login_error' = [kind |-> "no_usb", remaining |-> 0]
            /\ last_event' = "unlock_no_usb"
            /\ UNCHANGED << ul_pc, ul_call >>
       ELSE /\ ul_pc' = "checked"
            /\ ul_call' = [secret |-> secret, is_recovery |-> is_recovery,
                           master_key |-> NoBytes]
            /\ UNCHANGED << login_error, last_event >>
    /\ UNCHANGED << usb_path, vault_manager, engine, failed_attempts, locked_out,
                    page, auto_lock_timer, lockout_timers, idle, lock_elapsed,
                    monVars, devVars, disk, envVars, sto_call, sto_added, stepVars >>

\* Line 149: self._usb_path is read again for the call.  When the monitor
\* thread has emptied it, usb_path / KEY_FILE_NAME (usb_key_manager.py:77)
\* raises outside the try block and the handler ends there.
UnlockLoad ==
    /\ ul_pc = "checked"
    /\ IF usb_path = None
       THEN /\ ul_pc' = "idle"
            /\ ul_call' = NoUnlock
            /\ last_event' = "unlock_raised"
       ELSE /\ ul_pc' = "loaded"
            /\ ul_call' = [ul_call EXCEPT !.master_key =
                             load_usb_key(KeyFileBytes(usb_path, mounted, key_file),
                                          SecretGiven(ul_call.secret),
                                          ul_call.is_recovery)]
            /\ UNCHANGED last_event
    /\ UNCHANGED << usb_path, vault_manager, engine, failed_attempts, locked_out,
                    page, auto_lock_timer, lockout_timers, login_error, idle,
                    lock_elapsed, monVars, devVars, disk, envVars, sto_call,
                    sto_added, stepVars >>

\* Lines 151-175.
UnlockFinish ==
    /\ ul_pc = "loaded"
    /\ AfterLoad(ul_call.master_key)
    /\ ul_pc' = "idle"
    /\ ul_call' = NoUnlock
    /\ UNCHANGED << monVars, devVars, disk, envVars, sto_call, sto_added, stepVars >>

MainThreadFree == ul_pc = "idle"

NextRace ==
    \/ \E d \in DeviceSet : Insert(d)
    \/ \E d \in DeviceSet : Remove(d)
    \/ Tick
    \/ MonitorPoll
    \/ MonitorConnected
    \/ MonitorDisconnected
    \/ \E s \in TypedSecrets, r \in BOOLEAN : UnlockBegin(s, r)
    \/ UnlockLoad
    \/ UnlockFinish
    \/ MainThreadFree /\ PollUsb
    \/ MainThreadFree /\ EndLockout
    \/ MainThreadFree /\ LockRequested
    \/ MainThreadFree /\ AutoLock

SpecRace == Init /\ [][NextRace]_vars

\* C20: whenever the vault page is shown with a vault manager bound, the
\* controller's _usb_path is set, under every interleaving of the monitor
\* thread's callbacks with the steps of _on_unlock_requested.
C20_UnlockedImpliesPresent ==
    (page = PAGE_VAULT /\ vault_manager # None) => usb_path # None

(***************************************************************************)
(* Removal of the device while Unlocked                                    *)
(***************************************************************************)

\* C21: when the device the controller holds has been removed while the
\* vault page is shown, the monitor's next poll makes the disconnect callback
\* due (the callback that locks), whatever else is mounted at that time.
C21_RemovedDeviceLocks ==
    [][ ( /\ page = PAGE_VAULT
          /\ usb_path # None
          /\ usb_path \notin mounted
          /\ current_usb = usb_path
          /\ mon_pc = "poll"
          /\ MonitorPoll )
        => mon_pc' = "disconnected"
      ]_vars

(***************************************************************************)
(* The two polls.  USBMonitor.run calls the controller's handlers from the *)
(* monitor thread, and _poll_usb, on the main thread's 1-second timer,     *)
(* calls the same handlers after reading USBMonitor.usb_path.  h_runs      *)
(* counts the handler runs since a device was last inserted or removed.    *)
(***************************************************************************)

\* h_runs stops counting here.
MaxRuns == 3

HandlerRan == h_runs' = Min(MaxRuns, h_runs + 1)

pollsRest == << envVars, sto_call, sto_added, ul_pc, ul_call, op_pc, op_loc, lk_pc >>

DeviceInserted(d) ==
    /\ d \notin mounted
    /\ mounted' = mounted \cup {d}
    /\ h_runs' = 0
    /\ UNCHANGED << ctlVars, monVars, key_file, disk, pollsRest >>

DeviceRemoved(d) ==
    /\ d \in mounted
    /\ mounted' = mounted \ {d}
    /\ h_runs' = 0
    /\ UNCHANGED << ctlVars, monVars, key_file, disk, pollsRest >>

\* usb_monitor.py, line 180, and the handler it calls.
CallbackConnected ==
    /\ mon_pc = "connected"
    /\ on_usb_connected(current_usb)
    /\ HandlerRan
    /\ mon_pc' = "poll"
    /\ UNCHANGED << current_usb, devVars, pollsRest >>

\* usb_monitor.py, line 183, and the handler it calls.
CallbackDisconnected ==
    /\ mon_pc = "disconnected"
    /\ on_usb_disconnected
    /\ HandlerRan
    /\ mon_pc' = "poll"
    /\ UNCHANGED << current_usb, devVars, pollsRest >>

\* _poll_usb, lines 109-119.
TimerPollUsb ==
    /\ LET usb == current_usb
           was_connected == usb_path # None
       IN  IF usb # None /\ usb # usb_path
           THEN on_usb_connected(usb) /\ HandlerRan
           ELSE IF usb = None /\ was_connected
           THEN on_usb_disconnected /\ HandlerRan
           ELSE UNCHANGED << ctlVars, disk, h_runs >>
    /\ UNCHANGED << monVars, devVars, pollsRest >>

NextPolls ==
    \/ \E d \in DeviceSet : DeviceInserted(d)
    \/ \E d \in DeviceSet : DeviceRemoved(d)
    \/ MonitorPoll
    \/ CallbackConnected
    \/ CallbackDisconnected
    \/ TimerPollUsb
    \/ \E s \in TypedSecrets, r \in BOOLEAN : OnUnlockRequested(s, r)
    \/ LockRequested

SpecPolls == Init /\ [][NextPolls]_vars

\* C22: between two device transitions the controller's connect or
\* disconnect handler runs at most once, whichever of the monitor thread's
\* callback and the controller's own poll comes first.
C22_HandlerOncePerTransition == h_runs <= 1

(***************************************************************************)
(* The Storage Engine step by step.  add_file and delete_file run on the   *)
(* main thread, one file operation or one access to self._index or         *)
(* self._crypto at a time; a file operation may fail; VaultManager.lock,   *)
(* called by _on_usb_disconnected on the monitor thread, runs between any  *)
(* two steps.  Every state is also where a crash may stop the program.     *)
(***************************************************************************)

stepsRest == << usb_path, vault_manager, failed_attempts, locked_out, page,
                auto_lock_timer, lockout_timers, login_error, idle, lock_elapsed,
                last_event, monVars, devVars, envVars, ul_pc, ul_call, h_runs >>

\* The call is over: it returned ok, or an exception left it (out).  why is
\* what made it fail: "io", "no_cipher", "key_error", "not_found".
OpEnds(op, arg, ok, out, why) ==
    /\ op_pc' = "idle"
    /\ op_loc' = NoOp
    /\ sto_call' = [op |-> op, arg |-> arg, ok |-> ok, out |-> out, why |-> why]

Exception == << "exception" >>

\* An exception inside add_file is caught at line 114 and becomes False;
\* delete_file has no try block and lets it through.
OpRaises(why) ==
    IF op_loc.op = "add"
    THEN OpEnds("add", << op_loc.name >>, FALSE, << >>, why)
    ELSE OpEnds("delete", << op_loc.vault_id >>, FALSE, Exception, why)

Snapshot == [index      |-> engine.index,
             index_file |-> disk.index_file,
             listing    |-> list_files(engine, disk)]

\* add_file calls made, successful or not.
MaxStepAdds == 2

\* add_file, lines 87-89: read the source, hash it, encrypt it.
StepAddBegin(name) ==
    /\ op_pc = "idle"
    /\ disk.clock < MaxStepAdds
    /\ IF name \notin DOMAIN disk.src_files \/ engine.fernet = NoBytes
       THEN OpEnds("add", << name >>, FALSE, << >>,
                   IF engine.fernet = NoBytes /\ name \in DOMAIN disk.src_files
                   THEN "no_cipher" ELSE "io")
       ELSE /\ op_pc' = "add_write"
            /\ op_loc' = [NoOp EXCEPT
                            !.op = "add", !.name = name,
                            !.plaintext = disk.src_files[name],
                            !.ciphertext = FernetEncrypt(engine.fernet, disk.src_files[name]),
                            !.before = Snapshot]
            /\ UNCHANGED sto_call
    /\ UNCHANGED << engine, disk, sto_added, lk_pc, stepsRest >>

\* What secure_delete (encryption.py:64-79) can do to a file; it swallows
\* every exception and returns nothing.  The file is overwritten and unlinked
\* ("ok"), or the overwrite fails and the unlink of the except branch removes
\* it without a full overwrite ("unlinked"), or, when the overwrite and both
\* unlink calls fail, it stays ("failed").
EraseOutcomes == { "ok", "unlinked", "failed" }

\* What write_bytes can do to a file: write it whole, fail before the file
\* is opened, or fail after open() has truncated or created it.
WriteOutcomes == { "ok", "not_opened", "cut" }

\* add_file, lines 92-96: the storage name and vault_file.write_bytes.
StepAddWrite(outcome) ==
    /\ op_pc = "add_write"
    /\ LET t          == disk.clock + 1
           vault_stem == VaultStem(op_loc.name, t)
       IN  /\ disk' = [disk EXCEPT
                         !.clock = t,
                         !.vault_files =
                            CASE outcome = "ok"  -> With(disk.vault_files, vault_stem,
                                                         op_loc.ciphertext)
                              [] outcome = "cut" -> With(disk.vault_files, vault_stem, << >>)
                              [] OTHER           -> disk.vault_files]
           /\ IF outcome = "ok"
              THEN /\ op_pc' = "add_index"
                   /\ op_loc' = [op_loc EXCEPT !.vault_stem = vault_stem,
                                               !.vault_id = VaultId(vault_stem),
                                               !.added_at = t]
                   /\ UNCHANGED sto_call
              ELSE OpRaises("io")
    /\ UNCHANGED << engine, sto_added, lk_pc, stepsRest >>

\* add_file, lines 100-106: the entry of the file being added.
NewEntry(loc) ==
    [vault_id      |-> loc.vault_id,
     original_name |-> loc.name,
     vault_file    |-> loc.vault_stem,
     added_at      |-> loc.added_at,
     size_bytes    |-> Len(loc.plaintext),
     sha256        |-> get_file_integrity_hash(loc.plaintext)]

\* add_file, lines 99-106: self._index[vault_id] = {...}.
StepAddIndex ==
    /\ op_pc = "add_index"
    /\ engine' = [engine EXCEPT !.index = IndexSet(engine.index, NewEntry(op_loc))]
    /\ op_pc' = "save_dump"
    /\ UNCHANGED << disk, op_loc, sto_call, sto_added, lk_pc, stepsRest >>

\* _save_index, line 70: json.dumps(self._index).
StepSaveDump ==
    /\ op_pc = "save_dump"
    /\ op_loc' = [op_loc EXCEPT !.dump = JsonDumps(engine.index)]
    /\ op_pc' = "save_encrypt"
    /\ UNCHANGED << engine, disk, sto_call, sto_added, lk_pc, stepsRest >>

\* _save_index, line 71: self._crypto.encrypt_file; a wiped VaultCrypto has
\* _fernet = None and the call raises AttributeError.
StepSaveEncrypt ==
    /\ op_pc = "save_encrypt"
    /\ IF engine.fernet = NoBytes
       THEN OpRaises("no_cipher")
       ELSE /\ op_loc' = [op_loc EXCEPT !.token = FernetEncrypt(engine.fernet, op_loc.dump)]
            /\ op_pc' = "save_open"
            /\ UNCHANGED sto_call
    /\ UNCHANGED << engine, disk, sto_added, lk_pc, stepsRest >>

\* _save_index, line 72: write_bytes opens the index file for writing, which
\* empties it.
StepSaveOpen(outcome) ==
    /\ op_pc = "save_open"
    /\ outcome \in { "ok", "not_opened" }
    /\ IF outcome = "ok"
       THEN /\ disk' = [disk EXCEPT !.index_file = << >>]
            /\ op_pc' = "save_write"
            /\ UNCHANGED << op_loc, sto_call >>
       ELSE /\ OpRaises("io")
            /\ UNCHANGED disk
    /\ UNCHANGED << engine, sto_added, lk_pc, stepsRest >>

\* _save_index, line 72: write_bytes writes the token into the opened file.
StepSaveWrite(outcome) ==
    /\ op_pc = "save_write"
    /\ outcome \in { "ok", "cut" }
    /\ IF outcome = "ok"
       THEN /\ disk' = [disk EXCEPT !.index_file = op_loc.token]
            /\ IF op_loc.op = "add"
               THEN op_pc' = "add_wipe" /\ UNCHANGED << op_loc, sto_call >>
               ELSE OpEnds("delete", << op_loc.vault_id >>, TRUE, << >>, "none")
       ELSE /\ OpRaises("io")
            /\ UNCHANGED disk
    /\ UNCHANGED << engine, sto_added, lk_pc, stepsRest >>

\* add_file, lines 109-112: secure_delete(source_path), whose outcome is
\* not looked at, then return True.
StepAddWipe(outcome) ==
    /\ op_pc = "add_wipe"
    /\ disk' = IF outcome # "failed"
               THEN [disk EXCEPT !.src_files = Without(disk.src_files, op_loc.name)]
               ELSE disk
    /\ sto_added' = With(sto_added, op_loc.vault_id,
                         [name    |-> op_loc.name,
                          content |-> op_loc.plaintext,
                          stem    |-> op_loc.vault_stem,
                          stored  |-> op_loc.ciphertext])
    /\ OpEnds("add", << op_loc.name >>, TRUE, << >>, "none")
    /\ UNCHANGED << engine, lk_pc, stepsRest >>

\* delete_file, lines 187-189.
StepDeleteBegin(vault_id) ==
    /\ op_pc = "idle"
    /\ IF ~IndexHas(engine.index, vault_id)
       THEN OpEnds("delete", << vault_id >>, FALSE, << >>, "not_found")
       ELSE /\ op_pc' = "del_erase"
            /\ op_loc' = [NoOp EXCEPT
                            !.op = "delete", !.vault_id = vault_id,
                            !.vault_stem = IndexGet(engine.index, vault_id).vault_file,
                            !.before = Snapshot]
            /\ UNCHANGED sto_call
    /\ UNCHANGED << engine, disk, sto_added, lk_pc, stepsRest >>

\* delete_file, lines 191-193, and secure_delete (encryption.py:64-79), which
\* whose outcome is not looked at.
StepDeleteErase(outcome) ==
    /\ op_pc = "del_erase"
    /\ outcome \in EraseOutcomes
    /\ IF op_loc.vault_stem \in DOMAIN disk.vault_files
       THEN IF outcome # "failed"
            THEN /\ disk' = [disk EXCEPT !.vault_files =
                                Without(disk.vault_files, op_loc.vault_stem)]
                 /\ op_loc' = [op_loc EXCEPT !.erase = outcome]
            ELSE /\ op_loc' = [op_loc EXCEPT !.erase = "failed"]
                 /\ UNCHANGED disk
       ELSE /\ outcome = "ok"
            /\ UNCHANGED << disk, op_loc >>
    /\ op_pc' = "del_index"
    /\ UNCHANGED << engine, sto_call, sto_added, lk_pc, stepsRest >>

\* delete_file, line 195: del self._index[vault_id], a KeyError when the
\* index no longer holds it.
StepDeleteIndex ==
    /\ op_pc = "del_index"
    /\ IF IndexHas(engine.index, op_loc.vault_id)
       THEN /\ engine' = [engine EXCEPT !.index = IndexDel(engine.index, op_loc.vault_id)]
            /\ op_pc' = "save_dump"
            /\ UNCHANGED << op_loc, sto_call >>
       ELSE /\ OpRaises("key_error")
            /\ UNCHANGED engine
    /\ UNCHANGED << disk, sto_added, lk_pc, stepsRest >>

\* VaultManager.lock, line 201, called from _lock_vault on the monitor thread.
LockWipe ==
    /\ lk_pc = "idle"
    /\ engine.fernet # NoBytes
    /\ engine' = [engine EXCEPT !.fernet = NoBytes]
    /\ lk_pc' = "wiped"
    /\ UNCHANGED << disk, op_pc, op_loc, sto_call, sto_added, stepsRest >>

\* VaultManager.lock, line 202.
LockClear ==
    /\ lk_pc = "wiped"
    /\ engine' = [engine EXCEPT !.index = << >>]
    /\ lk_pc' = "locked"
    /\ UNCHANGED << disk, op_pc, op_loc, sto_call, sto_added, stepsRest >>

\* The next unlock on the main thread: a new VaultCrypto and VaultManager.
StepOpen ==
    /\ op_pc = "idle"
    /\ lk_pc = "locked"
    /\ engine' = NewVaultManager(StoKey, disk)
    /\ lk_pc' = "idle"
    /\ sto_call' = NoStoCall
    /\ UNCHANGED << disk, op_pc, op_loc, sto_added, stepsRest >>

NextSteps ==
    \/ \E n \in StoNames : StepAddBegin(n)
    \/ \E o \in WriteOutcomes : StepAddWrite(o)
    \/ StepAddIndex
    \/ StepSaveDump
    \/ StepSaveEncrypt
    \/ \E o \in WriteOutcomes : StepSaveOpen(o)
    \/ \E o \in WriteOutcomes : StepSaveWrite(o)
    \/ \E o \in EraseOutcomes : StepAddWipe(o)
    \/ \E v \in StoIds : StepDeleteBegin(v)
    \/ \E o \in EraseOutcomes : StepDeleteErase(o)
    \/ StepDeleteIndex
    \/ LockWipe
    \/ LockClear
    \/ StepOpen

SpecSteps == InitStorage /\ [][NextSteps]_vars

(***************************************************************************)
(* Properties of the Storage Engine, step by step                          *)
(***************************************************************************)

\* The step that ends the call in progress.
OpReturns == op_pc # "idle" /\ op_pc' = "idle"

\* The index the call in progress is to leave behind.
IndexAfter(loc) ==
    IF loc.op = "add" THEN IndexSet(loc.before.index, NewEntry(loc))
    ELSE IndexDel(loc.before.index, loc.vault_id)

\* C23: when VaultManager.lock runs while add_file or delete_file is in
\* progress and no file operation fails, the call leaves the index file as it
\* was or holding the encrypted complete index, and from the moment lock has
\* returned the engine has no cipher and an empty index.
C23_LockDuringMutation ==
    [][ /\ (OpReturns /\ lk_pc' # "idle" /\ sto_call'.why # "io")
           => \/ disk'.index_file = op_loc.before.index_file
              \/ disk'.index_file = FernetEncrypt(StoKey, JsonDumps(IndexAfter(op_loc)))
        /\ lk_pc' = "locked" => engine' = ClosedEngine
      ]_vars

\* The index a later session would load from the index file.
PersistedIndex == load_index(StoKey, disk)

\* C25: every entry of the persisted index names a vault file that is on
\* disk, in every state add_file and delete_file pass through, so wherever a
\* crash stops them.
C25_IndexedFilesExist ==
    \A i \in 1..Len(PersistedIndex) :
        PersistedIndex[i].vault_file \in DOMAIN disk.vault_files

\* C26: an add_file call that returns False leaves self._index and the index
\* file as they were when it was called, and list_files returns what it
\* returned then (no lock running beside it).
C26_FailedAddChangesNothing ==
    [][ (OpReturns /\ op_loc.op = "add" /\ ~sto_call'.ok /\ lk_pc' = "idle")
        => /\ engine'.index = op_loc.before.index
           /\ disk'.index_file = op_loc.before.index_file
           /\ list_files(engine', disk') = op_loc.before.listing
      ]_vars

\* An index file as a write that was never interrupted leaves it: absent, or
\* a token of the key holding a JSON document.
WholeIndexFile(bytes) ==
    \/ bytes = NoBytes
    \/ /\ decrypt_file(StoKey, bytes) # NoBytes
       /\ IsJson(decrypt_file(StoKey, bytes))

\* C28: whenever a crash or a failed file operation may stop _save_index,
\* the index file is the complete index of before or the complete new one.
C28_IndexFileWhole == WholeIndexFile(disk.index_file)

\* C29: add_file and delete_file end by returning True or False; no
\* exception leaves them, whichever file operation fails (no lock running
\* beside them).
C29_NoExceptionEscapes ==
    [][ (OpReturns /\ lk_pc' = "idle") => sto_call'.out # Exception ]_vars

\* C30: delete_file of an entry the index holds, with no failing write of
\* the index file and no lock beside it, returns True, leaves the entry
\* neither in self._index nor in the index file, and leaves no vault file
\* unless secure_delete failed outright; the entry is removed in that case
\* too.
C30_DeleteRemovesEntry ==
    [][ (OpReturns /\ op_loc.op = "delete" /\ lk_pc' = "idle" /\ sto_call'.why # "io")
        => /\ sto_call'.ok
           /\ ~IndexHas(engine'.index, op_loc.vault_id)
           /\ disk'.index_file = FernetEncrypt(StoKey, JsonDumps(engine'.index))
           /\ ~IndexHas(load_index(StoKey, disk'), op_loc.vault_id)
           /\ op_loc.erase # "failed" => op_loc.vault_stem \notin DOMAIN disk'.vault_files
      ]_vars

\* A delete has returned True although the vault file could not be erased:
\* the file is still there, the entry is not.
C30_Witness ==
    /\ op_pc = "idle"
    /\ sto_call.op = "delete" /\ sto_call.ok
    /\ sto_call.arg[1] \in DOMAIN sto_added
    /\ sto_added[sto_call.arg[1]].stem \in DOMAIN disk.vault_files
    /\ ~IndexHas(engine.index, sto_call.arg[1])
    /\ ~IndexHas(PersistedIndex, sto_call.arg[1])
    /\ lk_pc = "idle"

(***************************************************************************)
(* Sessions.  The vault directory and its index file are the same for      *)
(* every session (encryption.py:14-15), whichever enrolled device unlocked *)
(* it: each device carries a master key of its own (create_usb_key).       *)
(***************************************************************************)

\* The master key of the other enrolled device.
OtherKey == KeyMaterial[Enrolled(PwPadded, Rnd2)].master_key
SesKeys == { StoKey, OtherKey }

\* _lock_vault: VaultManager.lock().
SesLock ==
    /\ engine.fernet # NoBytes
    /\ engine' = lock(engine)
    /\ sto_call' = NoStoCall
    /\ UNCHANGED << disk, sto_added, stoRest >>

\* A successful unlock: VaultManager(VaultCrypto(master_key)).
SesOpen(key) ==
    /\ engine.fernet = NoBytes
    /\ engine' = NewVaultManager(key, disk)
    /\ sto_call' = NoStoCall
    /\ UNCHANGED << disk, sto_added, stoRest >>

\* delete_file; sto_added forgets the entry when it returns True.
SesDelete(vault_id) ==
    /\ LET r == delete_file(engine, disk, vault_id)
       IN  /\ engine' = r.vm
           /\ disk' = r.disk
           /\ sto_call' = [op |-> "delete", arg |-> << vault_id >>, ok |-> r.ok,
                           out |-> << >>, why |-> "none"]
           /\ sto_added' = IF r.ok /\ vault_id \in DOMAIN sto_added
                           THEN Without(sto_added, vault_id) ELSE sto_added
    /\ UNCHANGED stoRest

NextSessions ==
    \/ \E n \in StoNames : StoAdd(n)
    \/ StoList
    \/ \E v \in StoIds : StoExtract(v)
    \/ \E v \in StoIds : SesDelete(v)
    \/ SesLock
    \/ \E k \in SesKeys : SesOpen(k)

SpecSessions == InitStorage /\ [][NextSessions]_vars

\* The entries inside the index file, whatever key sealed it.
HeldByIndexFile(d) ==
    IF /\ d.index_file # NoBytes
       /\ Len(d.index_file) = 1
       /\ d.index_file[1][1] = "fernet"
       /\ IsJson(d.index_file[1][3])
    THEN JsonLoads(d.index_file[1][3])
    ELSE << >>

\* The key of the session that added the entry.
AddedUnder(vault_id) == sto_added[vault_id].stored[1][2]

\* C24: an entry that was added and not deleted, its vault file in place, is
\* listed in every session of the key it was added under, and the index file
\* keeps holding it, whatever sessions were opened and closed and whatever
\* else was added or deleted since.
C24_EntriesSurviveSessions ==
    \A vault_id \in DOMAIN sto_added :
        sto_added[vault_id].stem \in DOMAIN disk.vault_files
        => /\ engine.fernet = AddedUnder(vault_id)
              => Listed(list_files(engine, disk), vault_id)
           /\ IndexHas(HeldByIndexFile(disk), vault_id)

(***************************************************************************)
(* The storage name.  add_file derives it from the file's name and         *)
(* time.time(), the wall clock, which may return the value it returned at  *)
(* an earlier call (it is not monotonic and its resolution is finite).     *)
(***************************************************************************)

\* The values time.time() returns.
MaxClock == 2

\* What a user may put at the path of a source after the file was wiped.
NewContent == << B(7) >>

\* add_file while time.time() returns t.
ClockAdd(name, t) ==
    /\ LET r    == add_file_at(engine, disk, name, t)
           stem == VaultStem(name, t)
       IN  /\ engine' = r.vm
           /\ disk' = r.disk
           /\ sto_call' = [op |-> "add", arg |-> << name, t >>, ok |-> r.ok,
                           out |-> << >>, why |-> "none"]
           /\ sto_added' = IF r.ok
                           THEN With(sto_added, VaultId(stem),
                                     [name    |-> name,
                                      content |-> disk.src_files[name],
                                      stem    |-> stem,
                                      stored  |-> r.disk.vault_files[stem]])
                           ELSE sto_added
    /\ UNCHANGED stoRest

\* A new file is created where a wiped source was.
PutSource(name) ==
    /\ name \notin DOMAIN disk.src_files
    /\ disk' = [disk EXCEPT !.src_files = With(disk.src_files, name, NewContent)]
    /\ sto_call' = NoStoCall
    /\ UNCHANGED << engine, sto_added, stoRest >>

NextClock ==
    \/ \E n \in StoNames, t \in 1..MaxClock : ClockAdd(n, t)
    \/ PutSource(FileA)
    \/ \E v \in StoIds : StoDelete(v)

SpecClock == InitStorage /\ [][NextClock]_vars

\* The add_file call of this step, with the name and the time it was given.
AddCalled(name, t) == sto_call'.op = "add" /\ sto_call'.arg = << name, t >>

\* C27: an add_file whose storage name is already that of a vault file, or
\* whose vault_id is already in the index, returns False and leaves that
\* entry and that vault file as they are.
C27_AddNeverReplaces ==
    [][ \A name \in StoNames, t \in 1..MaxClock :
          LET vault_stem == VaultStem(name, t)
              vault_id   == VaultId(vault_stem)
          IN  ( /\ AddCalled(name, t)
                /\ name \in DOMAIN disk.src_files
                /\ \/ IndexHas(engine.index, vault_id)
                   \/ vault_stem \in DOMAIN disk.vault_files )
              => /\ ~sto_call'.ok
                 /\ engine'.index = engine.index
                 /\ disk'.vault_files = disk.vault_files
      ]_vars


\* ------------------------------------------------------------------------
\* secure_delete and its callers (encryption.py:64-79, vault_manager.py:191-197)

\* C31: a delete that returns True has overwritten and unlinked the vault
\* file (or found none to erase): an erase that fell back to the bare
\* unlink, or that left the file in place, is not reported as a successful
\* secure delete.
C31_EraseFailureReported ==
    [][ (OpReturns /\ op_loc.op = "delete" /\ sto_call'.ok)
        => /\ op_loc.erase \in { "ok", "none" }
           /\ op_loc.vault_stem \notin DOMAIN disk'.vault_files
      ]_vars


\* ------------------------------------------------------------------------
\* The engine after lock() (vault_manager.py:199-202, encryption.py:51-61)

\* C32: lock leaves the engine with no cipher and an empty index, and every
\* add, extract or delete called on it afterwards returns failure, list
\* returns the empty listing, and none of them changes the engine or any
\* file: no vault file, no index file, no extracted plaintext is written.
C32_ClosedEngineRefuses ==
    [][ /\ SesLock => engine' = ClosedEngine
        /\ (engine = ClosedEngine /\ sto_call'.op # "none")
           => /\ engine' = engine
              /\ disk' = disk
              /\ IF sto_call'.op = "list"
                 THEN sto_call'.out = << >>
                 ELSE ~sto_call'.ok
      ]_vars

\* An add of an existing source file has been refused by a locked engine
\* whose vault still holds files of the session before.
C32_Witness ==
    /\ engine = ClosedEngine
    /\ sto_call.op = "add"
    /\ ~sto_call.ok
    /\ sto_call.arg[1] \in DOMAIN disk.src_files
    /\ DOMAIN disk.vault_files # {}
    /\ disk.index_file # NoBytes


\* ------------------------------------------------------------------------
\* The index file after a mutation (vault_manager.py:68-72, 98-107, 195-197)

\* C33: when an add or a delete returns success and no lock ran beside it,
\* the index file decrypts under the cipher of the session, and what it
\* decrypts to is exactly the index the engine holds in memory.
C33_PersistedIsInMemory ==
    [][ (OpReturns /\ sto_call'.ok /\ lk_pc' = "idle")
        => /\ decrypt_file(engine'.fernet, disk'.index_file) # NoBytes
           /\ load_index(engine'.fernet, disk') = engine'.index
      ]_vars

\* A delete has returned True and left an entry behind, in memory and in the
\* index file alike.
C33_Witness ==
    /\ op_pc = "idle"
    /\ lk_pc = "idle"
    /\ sto_call.op = "delete"
    /\ sto_call.ok
    /\ engine.index # << >>
    /\ load_index(engine.fernet, disk) = engine.index


\* ------------------------------------------------------------------------
\* The failure counter and the lockout (main_window.py:138-187)

\* C34: in every reachable state 0 <= failed_attempts <= 5, locked_out is
\* set exactly when failed_attempts = 5, and at most one lockout timer is
\* pending.
C34_CounterAndLockout ==
    /\ failed_attempts \in 0..MAX_FAILED_ATTEMPTS
    /\ locked_out <=> (failed_attempts = MAX_FAILED_ATTEMPTS)
    /\ Len(lockout_timers) <= 1

\* The lockout is on after the fifth failure, its timer pending.
C34_Witness ==
    /\ locked_out
    /\ failed_attempts = MAX_FAILED_ATTEMPTS
    /\ Len(lockout_timers) = 1
    /\ last_event = "unlock_locked_out"


\* ------------------------------------------------------------------------
\* Unlock attempts with an empty presence cell (main_window.py:138-149)

\* C35: an unlock attempt made while usb_path is None is turned away
\* whatever the secret: failed_attempts, locked_out, the pending lockout
\* timer and the engine are what they were and the login page stays; while
\* a lockout is active the error shown is the lockout's, not the absent
\* device's.
C35_AbsentDeviceRejected ==
    [][ \A s \in TypedSecrets, r \in BOOLEAN :
          (UnlockHandled /\ usb_path = None /\ OnUnlockRequested(s, r))
          => /\ failed_attempts' = failed_attempts
             /\ locked_out' = locked_out
             /\ lockout_timers' = lockout_timers
             /\ page' = PAGE_LOGIN
             /\ vault_manager' = None
             /\ engine' = engine
             /\ login_error'.kind = IF locked_out THEN "lockout" ELSE "no_usb"
      ]_vars

\* An attempt has been turned away for the absent device, after earlier
\* failures that stay counted.
C35_Witness ==
    /\ last_event = "unlock_no_usb"
    /\ usb_path = None
    /\ failed_attempts > 0
    /\ ~locked_out
    /\ login_error.kind = "no_usb"


\* ------------------------------------------------------------------------
\* The source file of an add (vault_manager.py:86-116, main_window.py:222-226)

\* C36: the source file of an add is erased in no step but the last one of
\* an add that returns True, when the vault file holds the ciphertext of the
\* source and the index file has been written with the token of the index
\* (holding the new entry when no lock ran beside the add); an add that
\* returns failure leaves the source file in place with the content it had.
C36_SourceErasedLast ==
    [][ /\ (disk'.src_files # disk.src_files)
           => /\ op_loc.op = "add"
              /\ OpReturns
              /\ sto_call'.ok
              /\ op_loc.vault_stem \in DOMAIN disk.vault_files
              /\ decrypt_file(StoKey, disk.vault_files[op_loc.vault_stem])
                    = op_loc.plaintext
              /\ disk.index_file = op_loc.token
              /\ WholeIndexFile(disk.index_file)
              /\ lk_pc = "idle"
                   => IndexHas(load_index(StoKey, disk), op_loc.vault_id)
        /\ (OpReturns /\ op_loc.op = "add" /\ ~sto_call'.ok)
           => /\ op_loc.name \in DOMAIN disk'.src_files
              /\ disk'.src_files[op_loc.name] = op_loc.plaintext
      ]_vars

\* An add has returned False after its ciphertext was written: the source
\* file is still there, with the content the vault file encrypts.
C36_Witness ==
    /\ op_pc = "idle"
    /\ sto_call.op = "add"
    /\ ~sto_call.ok
    /\ sto_call.why = "io"
    /\ sto_call.arg[1] \in DOMAIN disk.src_files
    /\ \E stem \in DOMAIN disk.vault_files :
          decrypt_file(StoKey, disk.vault_files[stem]) = disk.src_files[sto_call.arg[1]]


\* ------------------------------------------------------------------------
\* Enrolled passwords at the login screen (setup_dialog.py:88-122,
\* main_window.py:148-151)

\* SetupDialog._on_init, lines 90-104: the password is taken as typed, must
\* be non-empty, equal to its confirmation and at least 8 characters long.
MIN_PASSWORD_LEN == 8

EnrollmentAccepts(password, password2) ==
    /\ password # << >>
    /\ password = password2
    /\ Len(password) >= MIN_PASSWORD_LEN

\* C37: an unlock attempt on the password path with the password the present
\* device was enrolled with (any password enrollment accepts, surrounding
\* whitespace included), no lockout active, unlocks the vault.
C37_EnrolledPasswordUnlocks ==
    [][ \A s \in TypedSecrets :
          \/ /\ page' = PAGE_VAULT
             /\ vault_manager' # None
             /\ failed_attempts' = 0
          \/ ~( /\ UnlockHandled
                /\ ~locked_out
                /\ DevicePresent
                /\ key_file[usb_path].damage = "none"
                /\ EnrollmentAccepts(s, s)
                /\ s = key_file[usb_path].password
                /\ OnUnlockRequested(s, FALSE) )
      ]_vars

====
